---------------------------- MODULE Spec2Model ----------------------------
(***************************************************************************)
(* Model of the DCA allocation strategies (fixed_dca_strategy.py,          *)
(* dynamic_dca_strategy.py, momentum_dca_strategy.py).                     *)
(*                                                                         *)
(* Numbers.  Python floats are modelled as exact rationals <<n, d>> with   *)
(* d > 0, kept in lowest terms; NaN is <<0, 0>>.  Comparisons with NaN are *)
(* FALSE and arithmetic on NaN gives NaN, as in IEEE arithmetic.  Rounding *)
(* error of the binary representation is not modelled.                     *)
(***************************************************************************)
EXTENDS Integers, Sequences, FiniteSets, TLC

\* ------------------------------------------------------------------ numbers

Abs(i) == IF i < 0 THEN -i ELSE i

RECURSIVE GCD(_, _)
GCD(a, b) == IF b = 0 THEN a ELSE GCD(b, a % b)

NaN == <<0, 0>>

IsNaN(x) == x[2] = 0

Norm(n, d) ==
    IF d = 0 THEN NaN
    ELSE LET g == GCD(Abs(n), Abs(d))
             s == IF d < 0 THEN -1 ELSE 1
         IN  <<(s * n) \div g, (s * d) \div g>>

R(n, d) == Norm(n, d)

Zero == <<0, 1>>
One == <<1, 1>>

\* Sums, products and comparisons cancel common factors before multiplying.
RAdd(a, b) == IF IsNaN(a) \/ IsNaN(b) THEN NaN
              ELSE LET g == GCD(a[2], b[2])
                   IN  Norm(a[1] * (b[2] \div g) + b[1] * (a[2] \div g),
                            (a[2] \div g) * b[2])
RNeg(a) == <<-a[1], a[2]>>
RSub(a, b) == RAdd(a, RNeg(b))
RMul(a, b) == IF IsNaN(a) \/ IsNaN(b) THEN NaN
              ELSE LET g1 == GCD(Abs(a[1]), b[2])
                       g2 == GCD(Abs(b[1]), a[2])
                   IN  <<(a[1] \div g1) * (b[1] \div g2), (a[2] \div g2) * (b[2] \div g1)>>
\* 1 / b; NaN for b = 0 (every division of the strategies by a value that can
\* be 0 is guarded, or raises and ends the run).
RInv(b) == IF b[1] = 0 THEN NaN
           ELSE IF b[1] < 0 THEN <<-b[2], -b[1]>> ELSE <<b[2], b[1]>>
RDiv(a, b) == IF IsNaN(a) \/ IsNaN(b) THEN NaN ELSE RMul(a, RInv(b))
RAbs(a) == <<Abs(a[1]), a[2]>>

RLt(a, b) == /\ ~IsNaN(a) /\ ~IsNaN(b)
             /\ LET g == GCD(a[2], b[2])
                IN  a[1] * (b[2] \div g) < b[1] * (a[2] \div g)
RLe(a, b) == /\ ~IsNaN(a) /\ ~IsNaN(b)
             /\ LET g == GCD(a[2], b[2])
                IN  a[1] * (b[2] \div g) <= b[1] * (a[2] \div g)
RGt(a, b) == RLt(b, a)
RGe(a, b) == RLe(b, a)

\* Python's min(a, b) / max(a, b): the first argument unless the second is
\* strictly smaller / larger.
PyMin(a, b) == IF RLt(b, a) THEN b ELSE a
PyMax(a, b) == IF RGt(b, a) THEN b ELSE a

\* total = sum(values): left to right from 0.
RECURSIVE SumLeft(_, _)
SumLeft(acc, s) == IF s = <<>> THEN acc ELSE SumLeft(RAdd(acc, Head(s)), Tail(s))


\* ----------------------------------------------------------- configuration

Variants == {"FixedDCA", "DynamicDCA", "MomentumDCA", "MomentumDCAv2", "MomentumDCAv3"}

TiltVariants == Variants \ {"FixedDCA"}

\* Variants whose next() applies the trend guard.
GuardVariants == {"DynamicDCA", "MomentumDCAv2", "MomentumDCAv3"}

\* The data feeds handed to the strategy (self.datas), by name.
Feeds == {"A", "B"}

\* ------------------------------------------------------------------ signals

\* The newest close of a feed (d.close[0]).
Close0(h) == h[Len(h)]

\* bt.ind.SMA(d.close, period=N), read `back` bars ago on bar number `bar`:
\* the arithmetic mean of the N closes ending there, NaN until N closes exist.
\* h holds the newest closes of the feed, oldest first.
SMA(h, N, back, bar) ==
    IF bar - back < N \/ Len(h) - back < N THEN NaN
    ELSE LET last == Len(h) - back
         IN  RDiv(SumLeft(Zero, SubSeq(h, last - N + 1, last)), <<N, 1>>)

\* mom = (fast - slow) / slow, the momentum ratio line.
MomLine(cfg, h, bar) ==
    LET fast == SMA(h, cfg.fast_period, 0, bar)
        slow == SMA(h, cfg.slow_period, 0, bar)
    IN  RDiv(RSub(fast, slow), slow)

\* dev = close / slow - 1, the deviation ratio line.
DevLine(cfg, h, bar) ==
    RSub(RDiv(Close0(h), SMA(h, cfg.slow_period, 0, bar)), One)

\* Both ratio lines divide by the slow average with a plain float division,
\* which raises ZeroDivisionError when the slow average is exactly 0.
LineRaises(cfg, h, bar) ==
    LET slow == SMA(h, cfg.slow_period, 0, bar)
    IN  ~IsNaN(slow) /\ slow[1] = 0

\* The unit in which a line and its rolling standard deviation are written:
\* "one" for values written as they are, "pico" for values written as
\* multiples of 1e-12 (so <<3, 1>> in "pico" is 3e-12).  A z-score is the same
\* number in either unit.
Units == {"one", "pico"}

\* sd <= 1e-12.  In "pico" the threshold is 1.  In "one" every positive
\* rational of the model has a denominator below 2^31 and is therefore above
\* 1e-12, so on model values the test is sd <= 0.
LeTiny(sd, unit) ==
    ~IsNaN(sd) /\ IF unit = "pico" THEN RLe(sd, One) ELSE sd[1] <= 0

\* The z-score helper without its tests for NaN.
ZScoreNoNaNTest(val, sd, unit) ==
    IF LeTiny(sd, unit) THEN Zero ELSE RDiv(val, sd)

\* The z-score helper without the test on the size of sd.
ZScoreUnguarded(val, sd, unit) ==
    IF IsNaN(sd) \/ IsNaN(val) THEN Zero ELSE RDiv(val, sd)

\* _zscore / _zscore_mom: val / sd, and exactly 0 when sd is tiny, non-positive
\* or NaN, or val is NaN.
ZScore(val, sd, unit) ==
    IF LeTiny(sd, unit) \/ IsNaN(sd) \/ IsNaN(val) THEN Zero ELSE RDiv(val, sd)

\* _trend_ok without the slope test.
TrendOkNoSlope(cfg, h, bar) ==
    IF ~cfg.trend_guard THEN TRUE
    ELSE LET lb == IF cfg.slope_lookback < bar - 1 THEN cfg.slope_lookback ELSE bar - 1
         IN  IF lb <= 0 THEN FALSE
             ELSE RGt(Close0(h), SMA(h, cfg.slow_period, 0, bar))

\* _trend_ok: price above the slow average and the slow average above its
\* value lb bars ago, lb = min(slope_lookback, len(slow) - 1); TRUE when the
\* guard is disabled.  len(slow) is the number of bars so far.
TrendOk(cfg, h, bar) ==
    IF ~cfg.trend_guard THEN TRUE
    ELSE LET lb == IF cfg.slope_lookback < bar - 1 THEN cfg.slope_lookback ELSE bar - 1
             slow0 == SMA(h, cfg.slow_period, 0, bar)
         IN  IF lb <= 0 THEN FALSE
             ELSE LET price_above == RGt(Close0(h), slow0)
                      slope_up == RGt(RSub(slow0, SMA(h, cfg.slow_period, lb, bar)), Zero)
                  IN  price_above /\ slope_up

\* ------------------------------------------------------------------- policy

\* The clip without its floor.
ClipNoFloor(cfg, m) == PyMin(cfg.m_max, m)

\* m = max(m_min, min(m_max, m))
Clip(cfg, m) == PyMax(cfg.m_min, PyMin(cfg.m_max, m))

\* _multiplier_from_z as a step function, without the two ramps.
MultiplierFromZFlat(cfg, z_mom) ==
    IF RLe(z_mom, cfg.z_floor) THEN cfg.m_min
    ELSE IF RLt(z_mom, cfg.z_entry) THEN One
    ELSE cfg.m_max

\* _multiplier_from_z with the upper ramp measured from 0 instead of z_entry.
MultiplierFromZNoDeadZone(cfg, z_mom) ==
    IF RLe(z_mom, cfg.z_floor) THEN cfg.m_min
    ELSE IF RLt(z_mom, Zero) THEN
        RAdd(cfg.m_min, RMul(RDiv(RSub(z_mom, cfg.z_floor), RSub(Zero, cfg.z_floor)),
                             RSub(One, cfg.m_min)))
    ELSE IF RLt(z_mom, cfg.z_entry) THEN One
    ELSE IF RLe(z_mom, cfg.z_full) THEN
        RAdd(One, RMul(RDiv(z_mom, cfg.z_full), RSub(cfg.m_max, One)))
    ELSE cfg.m_max

\* MomentumDCAv3._multiplier_from_z
MultiplierFromZ(cfg, z_mom) ==
    IF RLe(z_mom, cfg.z_floor) THEN cfg.m_min
    ELSE IF RLt(cfg.z_floor, z_mom) /\ RLt(z_mom, Zero) THEN
        LET span == RSub(Zero, cfg.z_floor)
        IN  IF RLe(span, Zero) THEN One
            ELSE LET frac == RDiv(RSub(z_mom, cfg.z_floor), span)
                 IN  RAdd(cfg.m_min, RMul(frac, RSub(One, cfg.m_min)))
    ELSE IF RLe(Zero, z_mom) /\ RLt(z_mom, cfg.z_entry) THEN One
    ELSE IF RLe(cfg.z_entry, z_mom) /\ RLe(z_mom, cfg.z_full) THEN
        LET span == RSub(cfg.z_full, cfg.z_entry)
        IN  IF RLe(span, Zero) THEN cfg.m_max
            ELSE LET frac == RDiv(RSub(z_mom, cfg.z_entry), span)
                 IN  RAdd(One, RMul(frac, RSub(cfg.m_max, One)))
    ELSE IF RGt(z_mom, cfg.z_full) THEN cfg.m_max
    ELSE One

\* The trend guard of next(): a boost is cut to 1.0 unless the trend is ok.
\* trend_ok is the value of _trend_ok(name).
TrendGuard(cfg, m, trend_ok) ==
    IF cfg.trend_guard /\ RGt(m, One) /\ ~trend_ok THEN PyMin(m, One) ELSE m

\* The valuation guard with a strict comparison.
ValuationGuardStrict(cfg, m, z_val) ==
    IF RGt(z_val, cfg.val_cap) /\ RGt(m, One) THEN One ELSE m

\* The valuation guard of MomentumDCAv3.next().
ValuationGuard(cfg, m, z_val) ==
    IF RGe(z_val, cfg.val_cap) /\ RGt(m, One) THEN One ELSE m

DynamicMultiplierMomentumSeeking(cfg, z, trend_ok) ==
    TrendGuard(cfg, Clip(cfg, RAdd(One, RMul(cfg.k, z))), trend_ok)

\* DynamicDCA.next: m = clip(1 - k*z), then the trend guard.
DynamicMultiplier(cfg, z, trend_ok) ==
    TrendGuard(cfg, Clip(cfg, RSub(One, RMul(cfg.k, z))), trend_ok)

\* MomentumDCA.next: m = clip(1 + k*z).
MomentumMultiplier(cfg, z) == Clip(cfg, RAdd(One, RMul(cfg.k, z)))

MomentumV2MultiplierNoFloor(cfg, z, trend_ok) ==
    TrendGuard(cfg, Clip(cfg, RAdd(One, RMul(cfg.k, z))), trend_ok)

\* MomentumDCAv2.next: linear tilt, momentum floor, clip, trend guard.
MomentumV2Multiplier(cfg, z, trend_ok) ==
    LET raw == RAdd(One, RMul(cfg.k, z))
        floored == IF RLt(z, cfg.z_floor) THEN cfg.m_min ELSE raw
    IN  TrendGuard(cfg, Clip(cfg, floored), trend_ok)

\* MomentumDCAv3.next: piecewise multiplier, valuation guard, trend guard,
\* final safety clip.
MomentumV3Multiplier(cfg, z_mom, z_val, trend_ok) ==
    Clip(cfg, TrendGuard(cfg, ValuationGuard(cfg, MultiplierFromZ(cfg, z_mom), z_val), trend_ok))

\* The multiplier a variant uses in spend = baseline * weight * m.
Multiplier(cfg, z_mom, z_val, trend_ok) ==
    CASE cfg.variant = "FixedDCA" -> One
      [] cfg.variant = "DynamicDCA" -> DynamicMultiplier(cfg, z_val, trend_ok)
      [] cfg.variant = "MomentumDCA" -> MomentumMultiplier(cfg, z_mom)
      [] cfg.variant = "MomentumDCAv2" -> MomentumV2Multiplier(cfg, z_mom, trend_ok)
      [] cfg.variant = "MomentumDCAv3" -> MomentumV3Multiplier(cfg, z_mom, z_val, trend_ok)


\* ------------------------------------------------------------- construction

\* The weight sum compared with == instead of a tolerance.
IsCloseExact(a, b, rel, abs_) == a = b

\* math.isclose(a, b, rel_tol=rel, abs_tol=abs_) on finite values.
IsClose(a, b, rel, abs_) ==
    \/ a = b
    \/ LET diff == RAbs(RSub(b, a))
       IN  \/ RLe(diff, RAbs(RMul(rel, b)))
           \/ RLe(diff, RAbs(RMul(rel, a)))
           \/ RLe(diff, abs_)

Weights(cfg) == [i \in 1..Len(cfg.portfolio) |-> cfg.portfolio[i][2]]

Tickers(cfg) == {cfg.portfolio[i][1] : i \in 1..Len(cfg.portfolio)}

\* __init__ of every DCA strategy: the three portfolio checks, in order; the
\* result is "ok" or the ValueError raised.
InitCheck(cfg) ==
    IF ~cfg.has_portfolio THEN "ValueError:portfolio"
    ELSE IF ~IsClose(SumLeft(Zero, Weights(cfg)), One, cfg.sum_tol, cfg.sum_tol)
         THEN "ValueError:sum"
    ELSE IF \E t \in Tickers(cfg) : t \notin Feeds THEN "ValueError:missing"
    ELSE "ok"

\* --------------------------------------------------------------- the bar

\* The gate with the comparison off by one.
GatedOffByOne(cfg, last, len) == last >= 0 /\ (len - last) <= cfg.interval

\* The schedule gate at the top of next(): TRUE when next() returns at once.
Gated(cfg, last, len) == last >= 0 /\ (len - last) < cfg.interval

\* One order: self.buy(data=d, size=size); alloc and price are kept with it.
Order(name, alloc, price) ==
    [name |-> name, alloc |-> alloc, price |-> price, size |-> RDiv(alloc, price)]

\* First pass of a tilting next() for one asset of the portfolio.
AssetEval(cfg, name, weight, h, sd, bar) ==
    LET price == Close0(h)
        skipped == RLe(price, Zero) \/ IsNaN(price)
        z_mom == ZScore(MomLine(cfg, h, bar), sd, "one")
        z_val == ZScore(DevLine(cfg, h, bar), sd, "one")
        trend_ok == TrendOk(cfg, h, bar)
        m == Multiplier(cfg, z_mom, z_val, trend_ok)
        spend == RMul(RMul(cfg.amount, weight), m)
    IN  [name |-> name, weight |-> weight, price |-> price, skipped |-> skipped,
         z_mom |-> IF skipped THEN Zero ELSE z_mom,
         z_val |-> IF skipped THEN Zero ELSE z_val,
         trend_ok |-> trend_ok,
         m |-> IF skipped THEN NaN ELSE m,
         spend |-> IF skipped THEN NaN ELSE spend,
         desired |-> ~skipped /\ RGt(spend, Zero)]

\* _last_invest_bar = -1: never invested.
NeverInvested == -1

\* What a call of next() did; this is the record of a call that returned at the
\* gate.  last is _last_invest_bar after the call.
NoCall ==
    [evaluated |-> FALSE, kind |-> "gated", cash |-> Zero, max_deployable |-> Zero,
     total_desired |-> Zero, scale |-> One, assets |-> <<>>, orders |-> <<>>,
     deposit |-> Zero, last |-> NeverInvested]

\* The second pass rescaling the first asset only.
TiltOrdersFirstOnly(desired, scale) ==
    LET all == [i \in 1..Len(desired) |->
                   Order(desired[i].name,
                         IF i = 1 THEN RMul(desired[i].spend, scale) ELSE desired[i].spend,
                         desired[i].price)]
    IN  SelectSeq(all, LAMBDA o : ~RLe(o.size, Zero))

\* The orders of the second pass: one per desired asset, alloc = spend * scale.
TiltOrders(desired, scale) ==
    LET all == [i \in 1..Len(desired) |->
                   Order(desired[i].name, RMul(desired[i].spend, scale), desired[i].price)]
    IN  SelectSeq(all, LAMBDA o : ~RLe(o.size, Zero))

\* The second pass without rescaling.
ScaleNone(total_desired, max_deployable) == One

\* The scale factor of the second pass.
ScaleFor(total_desired, max_deployable) ==
    IF RGt(total_desired, max_deployable) THEN RDiv(max_deployable, total_desired) ELSE One

\* next() of DynamicDCA, MomentumDCA, MomentumDCAv2, MomentumDCAv3 on an
\* evaluated bar (the gate has passed).  hist is the closes per feed, sd the
\* rolling std read for each feed, cash the broker's cash.
TiltNext(cfg, hist, sd, cash, bar) ==
    LET max_deployable == RDiv(cash, cfg.reserve_multiplier)
        assets == [i \in 1..Len(cfg.portfolio) |->
                      AssetEval(cfg, cfg.portfolio[i][1], cfg.portfolio[i][2],
                                hist[cfg.portfolio[i][1]], sd[cfg.portfolio[i][1]], bar)]
        desired == SelectSeq(assets, LAMBDA a : a.desired)
        total_desired == SumLeft(Zero, [i \in 1..Len(desired) |-> desired[i].spend])
        scale == ScaleFor(total_desired, max_deployable)
    IN  IF RLe(max_deployable, Zero) THEN
            [NoCall EXCEPT !.evaluated = TRUE, !.kind = "no_cash", !.cash = cash,
                           !.max_deployable = max_deployable, !.last = bar]
        ELSE IF RLe(total_desired, Zero) THEN
            [NoCall EXCEPT !.evaluated = TRUE, !.kind = "nothing", !.cash = cash,
                           !.max_deployable = max_deployable, !.assets = assets,
                           !.total_desired = total_desired, !.last = bar]
        ELSE
            [NoCall EXCEPT !.evaluated = TRUE, !.kind = "invested", !.cash = cash,
                           !.max_deployable = max_deployable, !.assets = assets,
                           !.total_desired = total_desired, !.scale = scale,
                           !.orders = TiltOrders(desired, scale), !.last = bar]

\* The allocation loop of FixedDCA.next for one asset: alloc = deploy * ratio,
\* skipped when the price is <= 0 (a NaN price is not) or the size is <= 0.
FixedEval(cfg, name, ratio, h, deploy_amount) ==
    LET price == Close0(h)
        skipped == RLe(price, Zero)
        alloc == RMul(deploy_amount, ratio)
    IN  [name |-> name, weight |-> ratio, price |-> price, skipped |-> skipped,
         z_mom |-> Zero, z_val |-> Zero, trend_ok |-> TRUE,
         m |-> IF skipped THEN NaN ELSE One,
         spend |-> IF skipped THEN NaN ELSE RMul(cfg.amount, ratio),
         desired |-> ~skipped /\ ~RLe(RDiv(alloc, price), Zero)]

\* _deposit_cash: the amount credited (0 when refused or not positive).
DepositCash(cfg) ==
    IF RGt(cfg.deposit_amount, Zero) /\ cfg.broker_deposits THEN cfg.deposit_amount ELSE Zero

\* FixedDCA.next deploying the whole baseline whatever the cash is.
FixedNextFullAmount(cfg, hist, cash, bar) ==
    LET max_deployable == RDiv(cash, cfg.reserve_multiplier)
        assets == [i \in 1..Len(cfg.portfolio) |->
                      FixedEval(cfg, cfg.portfolio[i][1], cfg.portfolio[i][2],
                                hist[cfg.portfolio[i][1]], cfg.amount)]
        desired == SelectSeq(assets, LAMBDA a : a.desired)
    IN  [NoCall EXCEPT !.evaluated = TRUE, !.cash = cash, !.kind = "invested",
                       !.max_deployable = max_deployable, !.deposit = DepositCash(cfg),
                       !.assets = assets, !.last = bar, !.total_desired = cfg.amount,
                       !.orders = [i \in 1..Len(desired) |->
                                      Order(desired[i].name,
                                            RMul(cfg.amount, desired[i].weight),
                                            desired[i].price)]]

\* FixedDCA.next on an evaluated bar.
FixedNext(cfg, hist, cash, bar) ==
    LET max_deployable == RDiv(cash, cfg.reserve_multiplier)
        deploy_amount == PyMin(cfg.amount, max_deployable)
        assets == [i \in 1..Len(cfg.portfolio) |->
                      FixedEval(cfg, cfg.portfolio[i][1], cfg.portfolio[i][2],
                                hist[cfg.portfolio[i][1]], deploy_amount)]
        desired == SelectSeq(assets, LAMBDA a : a.desired)
        base == [NoCall EXCEPT !.evaluated = TRUE, !.cash = cash,
                               !.max_deployable = max_deployable,
                               !.deposit = DepositCash(cfg)]
    IN  IF RLe(deploy_amount, Zero) THEN [base EXCEPT !.kind = "no_cash", !.last = bar]
        ELSE [base EXCEPT !.kind = "invested", !.assets = assets, !.last = bar,
                          !.total_desired = cfg.amount,
                          !.scale = RDiv(deploy_amount, cfg.amount),
                          !.orders = [i \in 1..Len(desired) |->
                                         Order(desired[i].name,
                                               RMul(deploy_amount, desired[i].weight),
                                               desired[i].price)]]

\* next() making the FixedDCA deposit before the schedule gate is tested.
NextCallDepositsGated(cfg, last, hist, sd, cash, bar) ==
    IF Gated(cfg, last, bar)
    THEN [NoCall EXCEPT !.last = last,
                        !.deposit = IF cfg.variant = "FixedDCA"
                                    THEN DepositCash(cfg) ELSE Zero]
    ELSE IF cfg.variant = "FixedDCA" THEN FixedNext(cfg, hist, cash, bar)
    ELSE TiltNext(cfg, hist, sd, cash, bar)

\* next() marking the bar as invested on every call, gated or not.
NextCallMarksGated(cfg, last, hist, sd, cash, bar) ==
    IF Gated(cfg, last, bar) THEN [NoCall EXCEPT !.last = bar]
    ELSE IF cfg.variant = "FixedDCA" THEN FixedNext(cfg, hist, cash, bar)
    ELSE TiltNext(cfg, hist, sd, cash, bar)

\* next() with a skipped investment leaving the schedule where it was.
NextCallRetry(cfg, last, hist, sd, cash, bar) ==
    IF Gated(cfg, last, bar) THEN [NoCall EXCEPT !.last = last]
    ELSE LET r == IF cfg.variant = "FixedDCA" THEN FixedNext(cfg, hist, cash, bar)
                  ELSE TiltNext(cfg, hist, sd, cash, bar)
         IN  IF r.kind = "invested" THEN r ELSE [r EXCEPT !.last = last]

\* next(): the schedule gate, then the variant's body.
NextCall(cfg, last, hist, sd, cash, bar) ==
    IF Gated(cfg, last, bar) THEN [NoCall EXCEPT !.last = last]
    ELSE IF cfg.variant = "FixedDCA" THEN FixedNext(cfg, hist, cash, bar)
    ELSE TiltNext(cfg, hist, sd, cash, bar)


\* ------------------------------------------------------------ the run

\* Number of bars the engine presents.
MaxBar == 4

P_Half == << <<"A", <<1, 2>>>>, <<"B", <<1, 2>>>> >>
P_Quarter == << <<"A", <<1, 4>>>>, <<"B", <<3, 4>>>> >>
P_Single == << <<"A", <<1, 1>>>> >>
P_BadSum == << <<"A", <<1, 2>>>>, <<"B", <<1, 4>>>> >>
P_Missing == << <<"A", <<1, 2>>>>, <<"C", <<1, 2>>>> >>
P_TolIn == << <<"A", <<1, 2>>>>, <<"B", <<1001, 2000>>>> >>
P_TolOut == << <<"A", <<1, 2>>>>, <<"B", <<1003, 2000>>>> >>

\* The parameters of a strategy.  _sum_tol is 1/1000 here where the source's
\* default is 1e-9: the weights of the model lie on a grid of 1/2000, as
\* doubles lie on a grid far finer than 1e-18 near 1.
BaseCfg ==
    [variant |-> "MomentumDCAv3", amount |-> <<100, 1>>, deposit_amount |-> Zero,
     broker_deposits |-> TRUE, interval |-> 2, has_portfolio |-> TRUE,
     portfolio |-> P_Half, reserve_multiplier |-> <<101, 100>>,
     sum_tol |-> <<1, 1000>>, fast_period |-> 1, slow_period |-> 2,
     k |-> <<1, 2>>, m_min |-> <<1, 2>>, m_max |-> <<3, 2>>,
     z_floor |-> <<-1, 1>>, z_entry |-> <<1, 2>>, z_full |-> <<2, 1>>,
     val_cap |-> <<2, 1>>, trend_guard |-> TRUE, slope_lookback |-> 1]

ScheduleCfgs ==
    {[BaseCfg EXCEPT !.variant = v, !.interval = i,
                     !.deposit_amount = IF v = "FixedDCA" THEN <<20, 1>> ELSE Zero] :
        v \in Variants, i \in {1, 2, 3}}

PolicyCfgs ==
    {[BaseCfg EXCEPT !.variant = v, !.trend_guard = FALSE] : v \in {"MomentumDCAv2"}}
    \cup {[BaseCfg EXCEPT !.variant = v, !.m_min = <<6, 5>>] :
             v \in {"DynamicDCA", "MomentumDCAv3"}}
    \cup {[BaseCfg EXCEPT !.variant = v, !.slow_period = 1, !.slope_lookback = 2] :
             v \in {"DynamicDCA", "MomentumDCAv3"}}
    \cup {[BaseCfg EXCEPT !.variant = v, !.portfolio = P_Quarter] :
             v \in {"FixedDCA", "MomentumDCAv3"}}

PortfolioCfgs ==
    {[BaseCfg EXCEPT !.variant = v, !.portfolio = p] :
        v \in Variants, p \in {P_BadSum, P_Missing, P_TolOut}}
    \cup {[BaseCfg EXCEPT !.variant = v, !.has_portfolio = FALSE, !.portfolio = <<>>] :
             v \in Variants}
    \cup {[BaseCfg EXCEPT !.variant = v, !.portfolio = P_TolIn] :
             v \in {"FixedDCA", "MomentumDCAv2"}}
    \cup {[BaseCfg EXCEPT !.variant = v, !.portfolio = P_Single] : v \in Variants}

Configs == ScheduleCfgs \cup PolicyCfgs \cup PortfolioCfgs

\* What the engine can present on a bar: a close per feed, the rolling std of
\* the ratio line per feed, and the broker's cash.  With fast_period = 1 the
\* momentum line and the deviation line are the same series, so one rolling
\* std is read for both.
CloseSet == [A |-> {NaN, Zero, <<10, 1>>, <<12, 1>>}, B |-> {<<10, 1>>}]
StdSet == [A |-> {NaN, <<1, 11>>, <<1, 33>>}, B |-> {NaN}]
CashSet == {Zero, <<40, 1>>, <<111, 1>>}

CloseInputs == {c \in [Feeds -> UNION {CloseSet[f] : f \in Feeds}] :
                   \A f \in Feeds : c[f] \in CloseSet[f]}
StdInputs == {sd \in [Feeds -> UNION {StdSet[f] : f \in Feeds}] :
                 \A f \in Feeds : sd[f] \in StdSet[f]}

NoInput == [sd |-> [f \in Feeds |-> NaN], cash |-> Zero]

VARIABLES phase, cfg, bar, hist, inp, last_invest_bar, cashflow, out, last_eval, analyzer,
          twin

vars ==
    <<phase, cfg, bar, hist, inp, last_invest_bar, cashflow, out, last_eval, analyzer, twin>>

\* The closes a feed keeps: what the indicators of the variant read, that is
\* the periods of the averages, and slope_lookback more where _trend_ok reads
\* the slow average of earlier bars.  FixedDCA has no indicator.
KeepLen(c) ==
    IF c.variant = "FixedDCA" THEN 1
    ELSE (IF c.fast_period > c.slow_period THEN c.fast_period ELSE c.slow_period)
         + (IF c.variant \in GuardVariants /\ c.trend_guard THEN c.slope_lookback ELSE 0)

Push(h, c, n) ==
    LET a == Append(h, c) IN IF Len(a) > n THEN SubSeq(a, Len(a) - n + 1, Len(a)) ELSE a

\* The date of a bar (datas[0].datetime.date(0)): one bar per day.
DateOf(b) == b

\* The ledger entry of a date replaced by the deposit instead of added to.
RecordOverwrites(ledger, dt, dep) ==
    IF ~RGt(dep, Zero) THEN ledger
    ELSE [d \in DOMAIN ledger \cup {dt} |-> IF d = dt THEN dep ELSE ledger[d]]

\* self._cashflow_by_date[dt] = self._cashflow_by_date.get(dt, 0.0) + dep
Record(ledger, dt, dep) ==
    IF ~RGt(dep, Zero) THEN ledger
    ELSE [d \in DOMAIN ledger \cup {dt} |->
             IF d = dt THEN RAdd(IF dt \in DOMAIN ledger THEN ledger[dt] ELSE Zero, dep)
             ELSE ledger[d]]

\* None, of a field not yet set.
None == <<>>

\* d[k] = v on a dict.
Put(d, k, v) == [x \in DOMAIN d \cup {k} |-> IF x = k THEN v ELSE d[x]]

\* CashFlowAdjustedReturns.__init__
NewAnalyzer ==
    [prev_value |-> None, prev_date |-> None, returns |-> <<>>, values |-> <<>>,
     flows |-> <<>>]

\* CashFlowAdjustedReturns._cashflow_for_date: the strategy's ledger entry of
\* the date, 0.0 without a ledger or an entry.
CashflowForDate(ledger, dt) == IF dt \in DOMAIN ledger THEN ledger[dt] ELSE Zero

\* The analyzer taking the cashflow recorded under the current bar's date.
AnalyzerNextSameDate(an, dt, value, ledger) ==
    IF an.prev_value = None
    THEN [an EXCEPT !.values = Put(an.values, dt, value), !.prev_value = value,
                    !.prev_date = dt]
    ELSE LET flow == CashflowForDate(ledger, dt)
             ret == IF an.prev_value = Zero THEN Zero
                    ELSE RSub(RDiv(RSub(value, flow), an.prev_value), One)
         IN  [values |-> Put(an.values, dt, value),
              flows |-> IF RGt(RAbs(flow), Zero) THEN Put(an.flows, dt, flow)
                        ELSE an.flows,
              returns |-> Put(an.returns, dt, ret),
              prev_value |-> value, prev_date |-> dt]

\* CashFlowAdjustedReturns.next on a bar of date dt with broker value value.
AnalyzerNext(an, dt, value, ledger) ==
    IF an.prev_value = None
    THEN [an EXCEPT !.values = Put(an.values, dt, value), !.prev_value = value,
                    !.prev_date = dt]
    ELSE LET flow == CashflowForDate(ledger, an.prev_date)
             ret == IF an.prev_value = Zero THEN Zero
                    ELSE RSub(RDiv(RSub(value, flow), an.prev_value), One)
         IN  [values |-> Put(an.values, dt, value),
              flows |-> IF RGt(RAbs(flow), Zero) THEN Put(an.flows, an.prev_date, flow)
                        ELSE an.flows,
              returns |-> Put(an.returns, dt, ret),
              prev_value |-> value, prev_date |-> dt]

\* A second, independent instance of the strategy: its _last_invest_bar, what
\* its last call of next() did, and its cashflow ledger.  This is the value
\* before a second instance is constructed.
NoTwin == [last_invest_bar |-> NeverInvested - 1, out |-> NoCall, cashflow |-> <<>>]

\* No evaluated bar yet.
NoEval == [bar |-> 0, skipped |-> FALSE]

InitWith(configs) ==
    /\ phase = "new"
    /\ cfg \in configs
    /\ bar = 0
    /\ hist = [f \in Feeds |-> <<>>]
    /\ inp = NoInput
    /\ last_invest_bar = NeverInvested - 1
    /\ cashflow = <<>>
    /\ out = NoCall
    /\ last_eval = NoEval
    /\ analyzer = NewAnalyzer
    /\ twin = NoTwin

Init == InitWith(Configs)

\* cerebro instantiates the strategy: __init__ runs.
Construct ==
    /\ phase = "new"
    /\ phase' = IF InitCheck(cfg) = "ok" THEN "ready" ELSE InitCheck(cfg)
    /\ last_invest_bar' = IF InitCheck(cfg) = "ok" THEN NeverInvested ELSE last_invest_bar
    /\ UNCHANGED <<cfg, bar, hist, inp, cashflow, out, last_eval, analyzer, twin>>

\* The engine loads the next bar: a close per feed, and the indicator lines
\* advance.  A ratio line of a tilting strategy that divides by a slow average
\* of 0 raises, and the run aborts; otherwise next() is due.
LoadBar ==
    /\ phase = "ready"
    /\ bar < MaxBar
    /\ \E c \in CloseInputs :
          hist' = [f \in Feeds |-> Push(hist[f], c[f], KeepLen(cfg))]
    /\ bar' = bar + 1
    /\ phase' = IF /\ cfg.variant \in TiltVariants
                   /\ \E f \in Feeds : LineRaises(cfg, hist'[f], bar')
                THEN "ZeroDivisionError" ELSE "loaded"
    /\ inp' = NoInput
    /\ out' = NoCall
    /\ UNCHANGED <<cfg, last_invest_bar, cashflow, last_eval, analyzer, twin>>

\* The engine calls next() on the loaded bar.  A call that passes the gate
\* reads the broker's cash and, in a tilting variant, the rolling std lines.
CallNext ==
    /\ phase = "loaded"
    /\ \E cash \in IF Gated(cfg, last_invest_bar, bar) THEN {NoInput.cash} ELSE CashSet,
          sd \in IF Gated(cfg, last_invest_bar, bar) \/ cfg.variant = "FixedDCA"
                 THEN {NoInput.sd} ELSE StdInputs :
          /\ inp' = [sd |-> sd, cash |-> cash]
          /\ out' = NextCall(cfg, last_invest_bar, hist, sd, cash, bar)
    /\ last_invest_bar' = out'.last
    /\ cashflow' = Record(cashflow, DateOf(bar), out'.deposit)
    /\ last_eval' = IF out'.evaluated
                    THEN [bar |-> bar, skipped |-> out'.kind # "invested"]
                    ELSE last_eval
    /\ phase' = "ready"
    /\ UNCHANGED <<cfg, bar, hist, analyzer, twin>>

Next == Construct \/ LoadBar \/ CallNext

Spec == Init /\ [][Next]_vars

\* ------------------------------------------------- two independent runs

\* A dict yielding its items in any order.
ItemsOrdersUnordered(portfolio) ==
    {[i \in 1..Len(portfolio) |-> portfolio[p[i]]] : p \in Permutations(1..Len(portfolio))}

\* The orders in which self.p.portfolio.items() can yield the items of the
\* dict: the insertion order, in every run.
ItemsOrders(portfolio) == {portfolio}

\* cerebro instantiates the strategy in each of the two runs.
ConstructBoth ==
    /\ phase = "new"
    /\ phase' = IF InitCheck(cfg) = "ok" THEN "ready" ELSE InitCheck(cfg)
    /\ last_invest_bar' = IF InitCheck(cfg) = "ok" THEN NeverInvested ELSE last_invest_bar
    /\ twin' = IF InitCheck(cfg) = "ok" THEN [twin EXCEPT !.last_invest_bar = NeverInvested]
               ELSE twin
    /\ UNCHANGED <<cfg, bar, hist, inp, cashflow, out, last_eval, analyzer>>

\* Both runs call next() on the loaded bar: the same closes, and the same cash
\* and rolling std read by each.  Each run iterates the portfolio for itself.
CallBoth ==
    /\ phase = "loaded"
    /\ \E cash \in IF Gated(cfg, last_invest_bar, bar) THEN {NoInput.cash} ELSE CashSet,
          sd \in IF Gated(cfg, last_invest_bar, bar) \/ cfg.variant = "FixedDCA"
                 THEN {NoInput.sd} ELSE StdInputs,
          items1 \in ItemsOrders(cfg.portfolio), items2 \in ItemsOrders(cfg.portfolio) :
          \E second \in {NextCall([cfg EXCEPT !.portfolio = items2],
                                  twin.last_invest_bar, hist, sd, cash, bar)} :
              /\ inp' = [sd |-> sd, cash |-> cash]
              /\ out' = NextCall([cfg EXCEPT !.portfolio = items1], last_invest_bar,
                                 hist, sd, cash, bar)
              /\ twin' = [last_invest_bar |-> second.last, out |-> second,
                          cashflow |-> Record(twin.cashflow, DateOf(bar), second.deposit)]
    /\ last_invest_bar' = out'.last
    /\ cashflow' = Record(cashflow, DateOf(bar), out'.deposit)
    /\ last_eval' = IF out'.evaluated
                    THEN [bar |-> bar, skipped |-> out'.kind # "invested"]
                    ELSE last_eval
    /\ phase' = "ready"
    /\ UNCHANGED <<cfg, bar, hist, analyzer>>

NextTwin == ConstructBoth \/ LoadBar \/ CallBoth

SpecTwin == Init /\ [][NextTwin]_vars

\* ------------------------------------------------- the policy as a function

\* The z-scores handed to the policy: the multiples of 1/ZDen up to ZMax/ZDen
\* in absolute value.
ZDen == 4
ZMax == 12

ZGrid == {Norm(i, ZDen) : i \in -ZMax..ZMax}

\* Whole z-scores, for the valuation z-score.
ZWhole == {z \in ZGrid : z[2] = 1}

MinSet == {<<1, 2>>, One, <<6, 5>>}
MaxSet == {<<3, 4>>, One, <<3, 2>>}

\* <<z_floor, z_entry, z_full>>: ordered thresholds, then z_entry = z_full,
\* z_floor above 0 and z_entry above z_full.
ThresholdSet ==
    { <<R(-1, 1), R(1, 2), R(2, 1)>>, <<R(-1, 2), Zero, One>>,
      <<R(-1, 1), R(1, 2), R(1, 2)>>, <<R(1, 4), R(1, 2), R(2, 1)>>,
      <<R(-1, 1), R(2, 1), R(1, 2)>> }

PolicyGrid ==
    { [BaseCfg EXCEPT !.variant = v, !.m_min = lo, !.m_max = hi, !.k = k,
                      !.z_floor = t[1], !.z_entry = t[2], !.z_full = t[3],
                      !.val_cap = cap, !.trend_guard = g] :
        v \in {"DynamicDCA", "MomentumDCA", "MomentumDCAv2"}, lo \in MinSet, hi \in MaxSet,
        k \in {R(1, 2), R(2, 1)}, t \in ThresholdSet, cap \in {R(2, 1)}, g \in BOOLEAN }
    \cup
    { [BaseCfg EXCEPT !.variant = "MomentumDCAv3", !.m_min = lo, !.m_max = hi,
                      !.z_floor = t[1], !.z_entry = t[2], !.z_full = t[3],
                      !.val_cap = cap, !.trend_guard = g] :
        lo \in MinSet, hi \in MaxSet, t \in ThresholdSet, cap \in {One, R(2, 1)},
        g \in BOOLEAN }

InitPolicy ==
    /\ phase = "policy"
    /\ cfg \in PolicyGrid
    /\ bar = 0
    /\ hist = [f \in Feeds |-> <<>>]
    /\ inp = NoInput
    /\ last_invest_bar = NeverInvested
    /\ cashflow = <<>>
    /\ out = NoCall
    /\ last_eval = NoEval
    /\ analyzer = NewAnalyzer
    /\ twin = NoTwin

\* The multiplier of one asset is computed from its z-scores and the value of
\* _trend_ok; a variant reads only the z-score it uses.  raw is the value of
\* _multiplier_from_z.
ApplyPolicy ==
    /\ phase = "policy"
    /\ \E z_mom \in IF cfg.variant = "DynamicDCA" THEN {Zero} ELSE ZGrid,
          z_val \in CASE cfg.variant = "DynamicDCA" -> ZGrid
                      [] cfg.variant = "MomentumDCAv3" -> ZWhole
                      [] OTHER -> {Zero},
          t \in BOOLEAN :
          /\ inp' = [z_mom |-> z_mom, z_val |-> z_val, trend_ok |-> t]
          /\ out' = [m |-> Multiplier(cfg, z_mom, z_val, t),
                     raw |-> MultiplierFromZ(cfg, z_mom)]
    /\ phase' = "applied"
    /\ UNCHANGED <<cfg, bar, hist, last_invest_bar, cashflow, last_eval,
                   analyzer, twin>>

\* _multiplier_from_z is computed at two z-scores za <= zb.
ComparePoints ==
    /\ phase = "policy"
    /\ cfg.variant = "MomentumDCAv3" /\ cfg.trend_guard /\ cfg.val_cap = R(2, 1)
    /\ \E za \in ZGrid, zb \in ZGrid :
          /\ RLe(za, zb)
          /\ inp' = [za |-> za, zb |-> zb]
          /\ out' = [ma |-> MultiplierFromZ(cfg, za), mb |-> MultiplierFromZ(cfg, zb)]
    /\ phase' = "compared"
    /\ UNCHANGED <<cfg, bar, hist, last_invest_bar, cashflow, last_eval,
                   analyzer, twin>>

\* Values of a momentum or deviation line and of its rolling standard
\* deviation handed to a z-score helper.
LineValues == {NaN, R(-3, 1), Zero, R(2, 1)}
StdValues == {NaN, R(-1, 1), Zero, R(1, 2), One, R(2, 1)}

\* A z-score helper of the strategy (_zscore_mom, _zscore, _z_mom, _z_val) is
\* called on the current values of a line and of its standard deviation.
ApplyZScore ==
    /\ phase = "policy"
    /\ \E val \in LineValues, sd \in StdValues, unit \in Units :
          /\ inp' = [val |-> val, sd |-> sd, unit |-> unit]
          /\ out' = [z |-> ZScore(val, sd, unit)]
    /\ phase' = "zscore"
    /\ UNCHANGED <<cfg, bar, hist, last_invest_bar, cashflow, last_eval,
                   analyzer, twin>>

NextPolicy == ApplyPolicy \/ ComparePoints \/ ApplyZScore

SpecPolicy == InitPolicy /\ [][NextPolicy]_vars


\* ------------------------------------------------- the returns analyzer

\* Broker values and deposits of a bar.
ValueSet == {Zero, R(100, 1), R(150, 1)}
DepositSet == {Zero, R(50, 1)}

InitReturns ==
    /\ phase = "bar"
    /\ cfg = [BaseCfg EXCEPT !.variant = "FixedDCA"]
    /\ bar = 0
    /\ hist = [f \in Feeds |-> <<>>]
    /\ inp = [date |-> 0, dep |-> Zero, value |-> Zero]
    /\ last_invest_bar = NeverInvested
    /\ cashflow = <<>>
    /\ out = NoCall
    /\ last_eval = NoEval
    /\ analyzer = NewAnalyzer
    /\ twin = NoTwin

\* The engine presents a bar, dated the day of the previous bar or the day
\* after, and the strategy's next() runs first: a deposit it makes is recorded
\* under the bar's date.
StrategyBar ==
    /\ phase = "bar"
    /\ bar < MaxBar
    /\ bar' = bar + 1
    /\ \E dt \in IF bar = 0 THEN {1} ELSE {inp.date, inp.date + 1}, dep \in DepositSet :
          /\ inp' = [date |-> dt, dep |-> dep, value |-> inp.value]
          /\ cashflow' = Record(cashflow, dt, dep)
    /\ phase' = "strategy"
    /\ UNCHANGED <<cfg, hist, last_invest_bar, out, last_eval, analyzer, twin>>

\* The analyzer's next() runs on the bar after the strategy's.
AnalyzerBar ==
    /\ phase = "strategy"
    /\ \E value \in ValueSet :
          /\ inp' = [inp EXCEPT !.value = value]
          /\ analyzer' = AnalyzerNext(analyzer, inp.date, value, cashflow)
    /\ phase' = "bar"
    /\ UNCHANGED <<cfg, bar, hist, last_invest_bar, cashflow, out, last_eval, twin>>

NextReturns == StrategyBar \/ AnalyzerBar

SpecReturns == InitReturns /\ [][NextReturns]_vars

\* ------------------------------------------------------------------ xirr

\* n1/d1 < n2/d2 for d1, d2 > 0, by whole parts and remainders, so that no
\* product is formed: rates deep in a bisection have denominators near 2^31.
RECURSIVE FracLess(_, _, _, _)
FracLess(n1, d1, n2, d2) ==
    LET q1 == n1 \div d1
        q2 == n2 \div d2
        r1 == n1 % d1
        r2 == n2 % d2
    IN  IF q1 # q2 THEN q1 < q2
        ELSE IF r2 = 0 THEN FALSE
        ELSE IF r1 = 0 THEN TRUE
        ELSE FracLess(d2, r2, d1, r1)

\* a < b and a <= b on rates.
RateLt(a, b) == FracLess(a[1], a[2], b[1], b[2])
RateLe(a, b) == ~FracLess(b[1], b[2], a[1], a[2])

\* The upper end of the bracket taken for its midpoint.
MidpointUpper(lo, hi) == hi

\* (lo + hi) / 2
Midpoint(lo, hi) == RMul(RAdd(lo, hi), R(1, 2))

\* A time is written in quarter days, so that D0 + 365.25 days is 1461.
\* timedelta.days with the part of a day kept.
DaysExact(t, t0) == R(t - t0, 4)

\* (t - t0).days: whole days, the part of a day dropped.
Days(t, t0) == R((t - t0) \div 4, 1)

\* years = (t - t0).days / 365.25
Years(t, t0) == RDiv(Days(t, t0), R(1461, 4))

\* sorted(cashflows, key=lambda x: x[0]): a stable insertion sort by time.
RECURSIVE SortedByDate(_)
SortedByDate(cfs) ==
    IF Len(cfs) <= 1 THEN cfs
    ELSE LET rest == SortedByDate(SubSeq(cfs, 1, Len(cfs) - 1))
             x == cfs[Len(cfs)]
             before == SelectSeq(rest, LAMBDA c : c[1] <= x[1])
             after == SelectSeq(rest, LAMBDA c : c[1] > x[1])
         IN  before \o <<x>> \o after

\* What the code looks at in a present value: its sign, whether it is exactly
\* 0, and whether it is within 1e-10 of 0 ("tiny").
PVClasses == {"neg", "tiny_neg", "zero", "tiny_pos", "pos"}

IsZeroPV(f) == f = "zero"
IsPosPV(f) == f \in {"pos", "tiny_pos"}
IsNegPV(f) == f \in {"neg", "tiny_neg"}
IsTinyPV(f) == f \in {"tiny_neg", "zero", "tiny_pos"}

\* The class of a sum of amounts.  An amount of the model that is not 0 is at
\* least 2^-31 in size, and so not within 1e-10 of 0.
ClassOf(x) == IF x = Zero THEN "zero" ELSE IF RLt(x, Zero) THEN "neg" ELSE "pos"

\* The amounts paid at the first time of a sorted list, and after it.
AtStart(cfs) == SumLeft(Zero, [i \in 1..Len(cfs) |->
                                  IF cfs[i][1] = cfs[1][1] THEN cfs[i][2] ELSE Zero])
Later(cfs) == SumLeft(Zero, [i \in 1..Len(cfs) |->
                                IF cfs[i][1] = cfs[1][1] THEN Zero ELSE cfs[i][2]])

\* The year fraction of the later payments (the lists of the model pay at the
\* first time and at one later time, at most 365.25 days on).
LaterYears(cfs) == Years(cfs[Len(cfs)][1], cfs[1][1])

\* _xnpv(rate, cashflows) on a sorted list: the classes the present value
\* total = sum cf / (1 + rate) ** years can fall in.  With a payments at the
\* start and b later, of opposite signs, total = a + b / (1 + rate) ** y and
\* (1 + rate) ** y is not a rational; for 0 < y <= 1 and rate > -1 it lies in
\*     (1 + rate) / (1 + (1 - y) * rate)  <=  (1 + rate) ** y  <=  1 + y * rate
\* (both by Bernoulli's inequality, with equality only at rate = 0 or y = 1),
\* which fixes the sign of total for rate <= (q - 1) / y and for
\* rate >= (q - 1) / (1 - q * (1 - y)), q = |b| / |a|.  Between the two bounds
\* the value is not determined here and every class is possible.
Xnpv(rate, cfs) ==
    IF cfs = <<>> THEN {"zero"}
    ELSE IF RLe(rate, R(-1, 1)) THEN {"pos"}
    ELSE LET a == AtStart(cfs)
             b == Later(cfs)
             y == LaterYears(cfs)
         IN  IF y = Zero \/ rate = Zero THEN {ClassOf(RAdd(a, b))}
             ELSE IF b = Zero THEN {ClassOf(a)}
             ELSE IF a = Zero THEN {ClassOf(b)}
             ELSE IF ClassOf(a) = ClassOf(b) THEN {ClassOf(a)}
             ELSE LET q == RDiv(RAbs(b), RAbs(a))
                      early == RDiv(RSub(q, One), y)
                      c == RSub(One, RMul(q, RSub(One, y)))
                      late == RDiv(RSub(q, One), c)
                  IN  IF y = One /\ rate = early THEN {"zero"}
                      ELSE IF RateLe(rate, early) THEN {ClassOf(b)}
                      ELSE IF RGt(c, Zero) /\ RateLe(late, rate) THEN {ClassOf(a)}
                      ELSE PVClasses

\* lo = -0.9999 and hi_candidates of xirr.
Lo == R(-9999, 10000)
HiCandidates ==
    <<Zero, R(1, 10), R(1, 4), R(1, 2), One, R(2, 1), R(5, 1), R(10, 1), R(20, 1),
      R(50, 1), R(100, 1)>>

\* The rate xirr returns, known to lie in [low, high]; low = high is an exact
\* rate.
Rate(low, high) == [low |-> low, high |-> high]

\* return None
NoRate == Rate(None, None)

\* f_lo before _xnpv(lo, cashflows) is computed.
NotEvaluated == "none"

\* has_pos with a zero amount counted as positive.
HasPosOrZero(cfs) == \E i \in 1..Len(cfs) : RGe(cfs[i][2], Zero)

\* has_pos and has_neg
HasPos(cfs) == \E i \in 1..Len(cfs) : RGt(cfs[i][2], Zero)
HasNeg(cfs) == \E i \in 1..Len(cfs) : RLt(cfs[i][2], Zero)

\* The state of a call of xirr before the candidates are tried: cfs is the
\* sorted list, idx the next candidate, iter the bisection iterations done,
\* f_mid the present value at the last midpoint tried.
XirrFrame(cfs, max_iter, f_lo) ==
    [cfs |-> cfs, max_iter |-> max_iter, lo |-> Lo, hi |-> None, f_lo |-> f_lo,
     f_mid |-> NotEvaluated, idx |-> 1, iter |-> 0, result |-> NoRate, returned |-> FALSE,
     evaluated |-> f_lo # NotEvaluated]

\* return of xirr
Return(frame, r) == [frame EXCEPT !.result = r, !.returned = TRUE]

\* ------------------------------------------------------------ xirr calls

\* Bisection iterations a caller asks for: 0..MaxIter, or the default.
MaxIter == 2
DefaultMaxIter == 200

\* Iterations of a bisection the model follows exactly; from then on it keeps
\* the bracket reached, which contains every later bracket.
Resolution == 16

MaxIterInputs == 0..MaxIter \cup {DefaultMaxIter}

\* Cashflow lists <<time in quarter days, amount>>: too short, one-signed,
\* all on one day (netting to zero or not), and an outflow and an inflow up
\* to 365.25 days apart, in either order of signs and of the list.
CF_Reference == << <<0, R(-1000, 1)>>, <<1461, R(1100, 1)>> >>

CashflowInputs ==
    { <<>>,
      << <<0, R(-100, 1)>> >>,
      << <<0, R(100, 1)>>, <<1460, R(50, 1)>> >>,
      << <<0, R(-100, 1)>>, <<1460, Zero>> >>,
      << <<0, R(-100, 1)>>, <<0, R(100, 1)>> >>,
      << <<0, R(-100, 1)>>, <<3, R(150, 1)>> >>,
      CF_Reference,
      << <<1461, R(1100, 1)>>, <<0, R(-1000, 1)>> >>,
      << <<0, R(1000, 1)>>, <<1460, R(-1100, 1)>> >>,
      << <<0, R(-100, 1)>>, <<1460, R(100, 1)>> >>,
      << <<0, R(-100, 1)>>, <<1460, R(130, 1)>> >>,
      << <<0, R(-1000, 1)>>, <<1460, R(500, 1)>> >>,
      << <<0, R(-1, 1)>>, <<1460, R(1000, 1)>> >>,
      << <<0, R(-1000, 1)>>, <<0, R(-500, 1)>>, <<1460, R(1650, 1)>> >>,
      << <<0, R(-100, 1)>>, <<0, R(150, 1)>>, <<1460, R(10, 1)>> >> }

InitXirr ==
    /\ phase = "xirr"
    /\ cfg = BaseCfg
    /\ bar = 0
    /\ hist = [f \in Feeds |-> <<>>]
    /\ inp = [cashflows |-> <<>>, max_iter |-> DefaultMaxIter]
    /\ last_invest_bar = NeverInvested
    /\ cashflow = <<>>
    /\ out = XirrFrame(<<>>, DefaultMaxIter, NotEvaluated)
    /\ last_eval = NoEval
    /\ analyzer = NewAnalyzer
    /\ twin = NoTwin

\* xirr is called: the early returns, the sort and the present value at lo.
CallXirr ==
    /\ phase = "xirr"
    /\ \E cfs \in CashflowInputs, n \in MaxIterInputs :
          /\ inp' = [cashflows |-> cfs, max_iter |-> n]
          /\ IF Len(cfs) < 2 \/ ~(HasPos(cfs) /\ HasNeg(cfs))
             THEN /\ out' = Return(XirrFrame(SortedByDate(cfs), n, NotEvaluated), NoRate)
                  /\ phase' = "xirr_returned"
             ELSE /\ \E f_lo \in Xnpv(Lo, SortedByDate(cfs)) :
                        out' = XirrFrame(SortedByDate(cfs), n, f_lo)
                  /\ phase' = "xirr_scan"
    /\ UNCHANGED <<cfg, bar, hist, last_invest_bar, cashflow, last_eval,
                   analyzer, twin>>

\* One turn of the loop over hi_candidates, and the return that follows the
\* loop when no candidate is left.
ScanCandidate ==
    /\ phase = "xirr_scan"
    /\ IF out.idx > Len(HiCandidates)
       THEN /\ out' = Return(out, NoRate)
            /\ phase' = "xirr_returned"
       ELSE LET cand == HiCandidates[out.idx]
            IN  \E f_cand \in Xnpv(cand, out.cfs) :
                   IF IsZeroPV(out.f_lo)
                   THEN /\ out' = Return(out, Rate(out.lo, out.lo))
                        /\ phase' = "xirr_returned"
                   ELSE IF IsZeroPV(f_cand)
                   THEN /\ out' = Return(out, Rate(cand, cand))
                        /\ phase' = "xirr_returned"
                   ELSE IF \/ IsPosPV(out.f_lo) /\ IsNegPV(f_cand)
                           \/ IsNegPV(out.f_lo) /\ IsPosPV(f_cand)
                   THEN /\ out' = [out EXCEPT !.hi = cand]
                        /\ phase' = "xirr_bisect"
                   ELSE /\ out' = [out EXCEPT !.idx = @ + 1]
                        /\ phase' = "xirr_scan"
    /\ UNCHANGED <<cfg, bar, hist, inp, last_invest_bar, cashflow, last_eval,
                   analyzer, twin>>

\* One iteration of the bisection loop, or the return after max_iter
\* iterations.  After Resolution iterations the bracket is kept as it is.
BisectStep ==
    /\ phase = "xirr_bisect"
    /\ IF out.iter >= out.max_iter
       THEN /\ out' = Return(out, IF out.iter >= Resolution THEN Rate(out.lo, out.hi)
                                  ELSE Rate(Midpoint(out.lo, out.hi), Midpoint(out.lo, out.hi)))
            /\ phase' = "xirr_returned"
       ELSE IF out.iter >= Resolution
       THEN \E f_mid \in PVClasses :
               IF IsTinyPV(f_mid)
               THEN /\ out' = Return([out EXCEPT !.iter = @ + 1, !.f_mid = f_mid],
                                     Rate(out.lo, out.hi))
                    /\ phase' = "xirr_returned"
               ELSE /\ out' = [out EXCEPT !.iter = @ + 1, !.f_mid = f_mid]
                    /\ phase' = "xirr_bisect"
       ELSE LET mid == Midpoint(out.lo, out.hi)
            IN  \E f_mid \in Xnpv(mid, out.cfs) :
                   IF IsTinyPV(f_mid)
                   THEN /\ out' = Return([out EXCEPT !.iter = @ + 1, !.f_mid = f_mid],
                                         Rate(mid, mid))
                        /\ phase' = "xirr_returned"
                   ELSE IF \/ IsPosPV(out.f_lo) /\ IsNegPV(f_mid)
                           \/ IsNegPV(out.f_lo) /\ IsPosPV(f_mid)
                   THEN /\ out' = [out EXCEPT !.hi = mid, !.iter = @ + 1, !.f_mid = f_mid]
                        /\ phase' = "xirr_bisect"
                   ELSE /\ out' = [out EXCEPT !.lo = mid, !.f_lo = f_mid, !.f_mid = f_mid,
                                              !.iter = @ + 1]
                        /\ phase' = "xirr_bisect"
    /\ UNCHANGED <<cfg, bar, hist, inp, last_invest_bar, cashflow, last_eval,
                   analyzer, twin>>

NextXirr == CallXirr \/ ScanCandidate \/ BisectStep

SpecXirr == InitXirr /\ [][NextXirr]_vars

\* A call of xirr is in progress: one of its steps is enabled (every branch of
\* CallXirr, ScanCandidate and BisectStep assigns a next state, and each one
\* changes phase, idx or iter).
Running == phase \in {"xirr", "xirr_scan", "xirr_bisect"}

\* A call of xirr runs on: it is sequential code that waits for nothing.  This
\* is weak fairness of NextXirr, with ENABLED <<NextXirr>>_vars written as
\* Running.
SpecXirrRuns == SpecXirr /\ ([]<>(~Running) \/ []<><<NextXirr>>_vars)


\* ------------------------------------------------------------ observations

\* A call of next() has just returned.
Called == phase = "ready" /\ bar > 0

\* A step that is a call of next().
IsCall == phase = "loaded" /\ phase' = "ready"

\* The value of the orders of a call: the sum of size * price.
OrderValue(o) == SumLeft(Zero, [i \in 1..Len(o.orders) |->
                                   RMul(o.orders[i].size, o.orders[i].price)])

\* The desired spends of a call: baseline * weight * m of every asset that is
\* not skipped and has a positive spend.
DesiredOf(o) == SelectSeq(o.assets, LAMBDA a : a.desired)

TotalDesired(o) ==
    LET d == DesiredOf(o) IN SumLeft(Zero, [i \in 1..Len(d) |-> d[i].spend])

OverBudget(o) == o.evaluated /\ o.kind = "invested" /\ RGt(TotalDesired(o), o.max_deployable)

\* The desired spend of the asset an order is for.
SpendOf(o, name) ==
    o.assets[CHOOSE i \in 1..Len(o.assets) : o.assets[i].name = name].spend

\* C1: next() evaluates an investment decision on a bar exactly when the
\* strategy has never invested or interval bars have passed since
\* last_invest_bar; the first bar presented is always evaluated, and two
\* consecutive evaluated bars are at least interval bars apart.
C1_ScheduleGating ==
    [][IsCall =>
        /\ out'.evaluated <=> (last_invest_bar < 0 \/ bar - last_invest_bar >= cfg.interval)
        /\ last_eval = NoEval => out'.evaluated
        /\ (out'.evaluated /\ last_eval # NoEval) => bar - last_eval.bar >= cfg.interval
        /\ ~out'.evaluated => (out'.orders = <<>> /\ last_invest_bar' = last_invest_bar)]_vars

\* An evaluated bar four bars into a run with interval 3, after gated bars.
C1_Witness ==
    /\ Called /\ out.evaluated /\ cfg.interval = 3 /\ bar = 4 /\ last_invest_bar = 4

\* The skip case of next(): no deployable cash, or nothing to allocate.
SkipCase(o) ==
    o.evaluated /\ (RLe(o.max_deployable, Zero) \/ RLe(TotalDesired(o), Zero))

\* C2: on an evaluated bar where max_deployable <= 0 or the total desired spend
\* is <= 0, no order is emitted and last_invest_bar becomes the current bar;
\* the bar evaluated next after such a skip is exactly interval bars later.
C2_SkipAdvancesSchedule ==
    [][IsCall =>
        /\ SkipCase(out') => (out'.orders = <<>> /\ last_invest_bar' = bar)
        /\ last_eval.skipped => (out'.evaluated <=> bar = last_eval.bar + cfg.interval)]_vars

\* A bar is loaded interval (2) bars after a skipped investment and is due.
C2_Witness ==
    /\ phase = "loaded" /\ last_eval.skipped /\ cfg.interval = 2
    /\ bar = last_eval.bar + cfg.interval

\* The weights of the assets that received an order.
OrderedWeights(o) ==
    LET d == DesiredOf(o)
    IN  SumLeft(Zero, [i \in 1..Len(d) |->
                          IF \E j \in 1..Len(o.orders) : o.orders[j].name = d[i].name
                          THEN d[i].weight ELSE Zero])

\* C4 as stated: on an evaluated bar where the total desired spend exceeds
\* max_deployable, the order values sum to max_deployable in every variant,
\* also when an asset is skipped for a bad price.
C4_Original ==
    (Called /\ OverBudget(out)) => OrderValue(out) = out.max_deployable

\* C4: on an evaluated bar where the total desired spend exceeds
\* max_deployable, the order values of a tilting variant sum to exactly
\* max_deployable, also when an asset is skipped for a bad price; the order
\* values of FixedDCA, whose orders all have a defined price, sum to
\* max_deployable times the sum of the weights of the assets that got an order.
C4_BudgetCap ==
    (Called /\ OverBudget(out)) =>
        /\ cfg.variant \in TiltVariants => OrderValue(out) = out.max_deployable
        /\ (cfg.variant = "FixedDCA" /\ \A i \in 1..Len(out.orders) : ~IsNaN(out.orders[i].price))
               => OrderValue(out) = RMul(out.max_deployable, OrderedWeights(out))

\* A tilting variant rescales an over-budget bar on which an asset is skipped
\* for a bad price.
C4_Witness ==
    /\ Called /\ OverBudget(out) /\ cfg.variant \in TiltVariants
    /\ Len(out.assets) = 2 /\ Len(out.orders) = 1
    /\ \E i \in 1..2 : out.assets[i].skipped

\* C5: when the desired spends are rescaled, every desired asset gets an order
\* and every order is its desired spend times one factor (in the tilting
\* variants max_deployable / total_desired), so the ratio between any two
\* allocations equals the ratio between their desired spends.
C5_UniformRescale ==
    (Called /\ OverBudget(out)) =>
        LET factor == RDiv(out.max_deployable, TotalDesired(out))
            spend == [i \in 1..Len(out.orders) |-> SpendOf(out, out.orders[i].name)]
        IN  /\ Len(out.orders) = Len(DesiredOf(out))
            /\ \A i \in 1..Len(out.orders) :
                  /\ cfg.variant \in TiltVariants =>
                        out.orders[i].alloc = RMul(spend[i], factor)
                  /\ \A j \in 1..Len(out.orders) :
                        RMul(out.orders[i].alloc, spend[j])
                            = RMul(out.orders[j].alloc, spend[i])

\* Two assets with different desired spends are rescaled together.
C5_Witness ==
    /\ Called /\ OverBudget(out) /\ cfg.variant \in TiltVariants
    /\ Len(out.orders) = 2
    /\ out.assets[1].spend # out.assets[2].spend
    /\ RLt(out.orders[1].alloc, out.assets[1].spend)

\* The three construction faults of the claim, stated on the configuration.
PortfolioAbsent == ~cfg.has_portfolio

SumOutOfTolerance ==
    cfg.has_portfolio /\ RGt(RAbs(RSub(SumLeft(Zero, Weights(cfg)), One)), cfg.sum_tol)

FeedMissing == cfg.has_portfolio /\ ~(Tickers(cfg) \subseteq Feeds)

Rejected == phase \in {"ValueError:portfolio", "ValueError:sum", "ValueError:missing"}

\* C6: construction fails with an error when the portfolio is absent, its
\* weights do not sum to 1.0 within the tolerance, or it names a ticker with no
\* feed, and then no bar is processed; otherwise it is accepted and the
\* schedule starts in the never-invested state.
C6_ConstructionValidation ==
    phase # "new" =>
        /\ Rejected <=> (PortfolioAbsent \/ SumOutOfTolerance \/ FeedMissing)
        /\ Rejected => (bar = 0 /\ out = NoCall /\ last_invest_bar # NeverInvested)
        /\ (~Rejected /\ bar = 0) => last_invest_bar = NeverInvested

\* A portfolio whose weights sum to just outside the tolerance is rejected.
C6_Witness == phase = "ValueError:sum" /\ cfg.portfolio = P_TolOut

\* The trend condition of the claim for one feed: price above the slow average
\* and the slow average above its value slope_lookback bars ago.
TrendCondition(name) ==
    LET h == hist[name]
        slow0 == SMA(h, cfg.slow_period, 0, bar)
    IN  /\ RGt(Close0(h), slow0)
        /\ RGt(slow0, SMA(h, cfg.slow_period, cfg.slope_lookback, bar))

\* The multiplier of an evaluated asset before the trend guard.
BeforeTrendGuard(a) ==
    CASE cfg.variant = "DynamicDCA" -> Clip(cfg, RSub(One, RMul(cfg.k, a.z_val)))
      [] cfg.variant = "MomentumDCAv2" ->
            Clip(cfg, IF RLt(a.z_mom, cfg.z_floor) THEN cfg.m_min
                      ELSE RAdd(One, RMul(cfg.k, a.z_mom)))
      [] cfg.variant = "MomentumDCAv3" ->
            ValuationGuard(cfg, MultiplierFromZ(cfg, a.z_mom), a.z_val)

GuardedCall == Called /\ out.evaluated /\ cfg.variant \in GuardVariants /\ cfg.trend_guard

Applied == phase = "applied"

Ordered == RLt(cfg.z_floor, Zero) /\ RLe(Zero, cfg.z_entry) /\ RLt(cfg.z_entry, cfg.z_full)

\* v lies on the straight line through (z0, v0) and (z1, v1) at z.
OnLine(z, v, z0, v0, z1, v1) ==
    RMul(RSub(v, v0), RSub(z1, z0)) = RMul(RSub(v1, v0), RSub(z, z0))

\* C7: _multiplier_from_z is m_min for z <= z_floor, the linear interpolation
\* from m_min (at z_floor) to 1.0 (at 0) for z_floor < z < 0, exactly 1.0 for
\* 0 <= z < z_entry, the linear interpolation from 1.0 (at z_entry) to m_max
\* (at z_full) for z_entry <= z <= z_full, and m_max for z > z_full, the
\* thresholds being in the order z_floor < 0 <= z_entry < z_full that makes
\* these five regions.
C7_FiveRegions ==
    (Applied /\ cfg.variant = "MomentumDCAv3" /\ Ordered) =>
        LET z == inp.z_mom
            m == out.raw
        IN  /\ RLe(z, cfg.z_floor) => m = cfg.m_min
            /\ (RLt(cfg.z_floor, z) /\ RLt(z, Zero))
                  => OnLine(z, m, cfg.z_floor, cfg.m_min, Zero, One)
            /\ (RLe(Zero, z) /\ RLt(z, cfg.z_entry)) => m = One
            /\ (RLe(cfg.z_entry, z) /\ RLe(z, cfg.z_full))
                  => OnLine(z, m, cfg.z_entry, One, cfg.z_full, cfg.m_max)
            /\ RGt(z, cfg.z_full) => m = cfg.m_max

\* A z-score inside the upper ramp gives a multiplier strictly between 1.0 and
\* m_max.
C7_Witness ==
    /\ Applied /\ cfg.variant = "MomentumDCAv3" /\ Ordered
    /\ RLt(cfg.z_entry, inp.z_mom) /\ RLt(inp.z_mom, cfg.z_full)
    /\ RLt(One, out.raw) /\ RLt(out.raw, cfg.m_max)

\* The region of the claim a z-score lies in.
Region(z) ==
    IF RLe(z, cfg.z_floor) THEN 1
    ELSE IF RLt(z, Zero) THEN 2
    ELSE IF RLt(z, cfg.z_entry) THEN 3
    ELSE IF RLe(z, cfg.z_full) THEN 4
    ELSE 5

\* The steeper of the two ramps.
MaxSlope ==
    LET lower == RDiv(RAbs(RSub(One, cfg.m_min)), RSub(Zero, cfg.z_floor))
        upper == RDiv(RAbs(RSub(cfg.m_max, One)), RSub(cfg.z_full, cfg.z_entry))
    IN  IF RGt(upper, lower) THEN upper ELSE lower

Compared == phase = "compared" /\ Ordered

\* Non-decreasing within a region, the stated values at the breakpoints, and
\* no jump: two values differ by at most the steeper slope times the distance.
MonotoneAndContinuous ==
    /\ Region(inp.za) = Region(inp.zb) => RLe(out.ma, out.mb)
    /\ inp.za = cfg.z_floor => out.ma = cfg.m_min
    /\ inp.za = Zero => out.ma = One
    /\ inp.za = cfg.z_entry => out.ma = One
    /\ inp.za = cfg.z_full => out.ma = cfg.m_max
    /\ RLe(RAbs(RSub(out.mb, out.ma)), RMul(MaxSlope, RSub(inp.zb, inp.za)))

BelowFloor ==
    Applied /\ cfg.variant = "MomentumDCAv2" /\ RLt(inp.z_mom, cfg.z_floor)

ClipTo(x, lo, hi) == IF RLt(x, lo) THEN lo ELSE IF RGt(x, hi) THEN hi ELSE x

\* 1 + sign * k * z for sign +1 (momentum-seeking) and -1 (value-seeking).
LinearTilt(sign, k, z) == RAdd(One, RMul(R(sign, 1), RMul(k, z)))

\* C12: with m_min <= m_max, MomentumDCA uses the multiplier
\* clip(1 + k*z_mom, m_min, m_max), and DynamicDCA computes
\* clip(1 - k*z_dev, m_min, m_max) before its trend guard: the multiplier it
\* uses is that value, cut to 1.0 when the guard is enabled, the value is above
\* 1.0 and the trend condition fails.
C12_LinearTilt ==
    (Applied /\ RLe(cfg.m_min, cfg.m_max)) =>
        /\ cfg.variant = "MomentumDCA" =>
              out.m = ClipTo(LinearTilt(1, cfg.k, inp.z_mom), cfg.m_min, cfg.m_max)
        /\ cfg.variant = "DynamicDCA" =>
              LET pre == ClipTo(LinearTilt(-1, cfg.k, inp.z_val), cfg.m_min, cfg.m_max)
              IN  out.m = IF cfg.trend_guard /\ RGt(pre, One) /\ ~inp.trend_ok
                          THEN One ELSE pre

\* DynamicDCA buys less of an asset priced above its average: z_dev = 1/2 with
\* k = 1/2 gives 1 - 1/4 = 3/4, strictly inside [m_min, m_max].
C12_Witness ==
    /\ Applied /\ cfg.variant = "DynamicDCA"
    /\ cfg.m_min = R(1, 2) /\ cfg.m_max = R(3, 2) /\ cfg.k = R(1, 2)
    /\ inp.z_val = R(1, 2) /\ out.m = R(3, 4)

\* A z-score helper has just returned.
Scored == phase = "zscore"

\* The standard deviation handed to the helper is below, or exactly, 1e-12.
BelowTiny == inp.unit = "pico" /\ RLt(inp.sd, One)
ExactlyTiny == inp.unit = "pico" /\ inp.sd = One

\* The helper's neutral cases as the claim lists them, without the threshold.
Undefined == IsNaN(inp.sd) \/ RLe(inp.sd, Zero) \/ IsNaN(inp.val)

\* C13 as stated: a z-score helper returns exactly 0.0 when the standard
\* deviation is undefined, non-positive or below 1e-12 or the numerator is
\* undefined, and numerator / standard deviation in every other case.
C13_Original ==
    Scored => out.z = IF Undefined \/ BelowTiny THEN Zero ELSE RDiv(inp.val, inp.sd)

\* C13: a z-score helper returns exactly 0.0 when the standard deviation is
\* undefined, non-positive, or at or below 1e-12, or when the numerator is
\* undefined; in every other case it returns numerator / standard deviation;
\* it never returns an undefined value.
C13_NeutralZScore ==
    Scored =>
        /\ out.z = IF Undefined \/ BelowTiny \/ ExactlyTiny
                   THEN Zero ELSE RDiv(inp.val, inp.sd)
        /\ ~IsNaN(out.z)

\* A standard deviation of exactly 1e-12 under a numerator of 2e-12: neutral,
\* not 2.
C13_Witness ==
    Scored /\ ExactlyTiny /\ inp.val = R(2, 1) /\ out.z = Zero

\* A price that is non-positive or undefined.
BadPrice(p) == IsNaN(p) \/ RLe(p, Zero)

\* The call emitted an order for the asset.
HasOrder(o, name) == \E j \in 1..Len(o.orders) : o.orders[j].name = name

\* The call evaluated the bar and went through its assets.
WentThroughAssets(o) == o.evaluated /\ o.kind \in {"invested", "nothing"}

\* C14: in every variant, on an evaluated bar, an asset whose price is
\* non-positive or NaN receives no order on that bar, every asset of the
\* portfolio is considered on the bar (a skip on an earlier bar excludes
\* nothing), and every asset with a valid price whose spend is due receives its
\* order.
C14_BadPriceSkip ==
    (Called /\ WentThroughAssets(out)) =>
        /\ Len(out.assets) = Len(cfg.portfolio)
        /\ \A i \in 1..Len(out.assets) :
              LET a == out.assets[i]
              IN  /\ BadPrice(a.price) => ~HasOrder(out, a.name)
                  /\ (~BadPrice(a.price) /\ a.desired /\ out.kind = "invested")
                        => HasOrder(out, a.name)

\* The weight the portfolio gives to an asset.
WeightOf(name) ==
    LET i == CHOOSE i \in 1..Len(cfg.portfolio) : cfg.portfolio[i][1] = name
    IN  cfg.portfolio[i][2]

\* min(amount, available_cash / reserve_multiplier) for the cash the call read.
DeployOf(o) ==
    LET cap == RDiv(o.cash, cfg.reserve_multiplier)
    IN  IF RLt(cap, cfg.amount) THEN cap ELSE cfg.amount

\* C15: on every evaluated bar FixedDCA deploys
\* deploy = min(amount, available_cash / reserve_multiplier): every asset with a
\* positive price receives an order when deploy > 0, every order it emits is
\* for exactly deploy * weight (multiplier 1.0, no tilt), and with deploy <= 0
\* it emits nothing; a shortfall raises no error.
C15_FixedBaseline ==
    (Called /\ cfg.variant = "FixedDCA" /\ out.evaluated) =>
        LET deploy == DeployOf(out)
        IN  /\ RLe(deploy, Zero) => out.orders = <<>>
            /\ \A j \in 1..Len(out.orders) :
                  out.orders[j].alloc = RMul(deploy, WeightOf(out.orders[j].name))
            /\ RGt(deploy, Zero) =>
                  \A i \in 1..Len(cfg.portfolio) :
                      RGt(Close0(hist[cfg.portfolio[i][1]]), Zero)
                          => HasOrder(out, cfg.portfolio[i][1])

\* A shortfall: cash 40 against a baseline of 100 deploys 40 / 1.01, and the
\* asset of weight 1/2 is bought for 2000/101 = 19.80.
C15_Witness ==
    /\ Called /\ cfg.variant = "FixedDCA" /\ out.evaluated
    /\ out.cash = R(40, 1) /\ cfg.amount = R(100, 1)
    /\ \E j \in 1..Len(out.orders) :
          out.orders[j].name = "B" /\ out.orders[j].alloc = R(2000, 101)

\* A step that is a call of the analyzer's next().
IsAnalyzerCall == phase = "strategy" /\ phase' = "bar"

\* The date of the bar before the current one: the latest date with a value.
PreviousDate ==
    CHOOSE d \in DOMAIN analyzer.values : \A e \in DOMAIN analyzer.values : e <= d

\* The external cashflow recorded under a date, 0 if none.
FlowOn(d) == IF d \in DOMAIN cashflow THEN cashflow[d] ELSE Zero

\* n bars with distinct dates give n - 1 return observations.
OneReturnPerLaterBar ==
    (phase = "bar" /\ bar >= 1 /\ Cardinality(DOMAIN analyzer.values) = bar)
        => Cardinality(DOMAIN analyzer.returns) = bar - 1

XirrReturned == phase = "xirr_returned"

\* The candidate rates as the claim lists them.
ListedCandidates ==
    {Zero, R(1, 10), R(1, 4), R(1, 2), One, R(2, 1), R(5, 1), R(10, 1), R(20, 1),
     R(50, 1), R(100, 1)}

\* Two present values of opposite signs.
Opposite(f, g) == (IsPosPV(f) /\ IsNegPV(g)) \/ (IsNegPV(f) /\ IsPosPV(g))

\* The cashflows handed to xirr contain a positive and a negative amount.
Mixed ==
    /\ \E i \in 1..Len(inp.cashflows) : inp.cashflows[i][2][1] > 0
    /\ \E i \in 1..Len(inp.cashflows) : inp.cashflows[i][2][1] < 0

\* No listed candidate gives a present value of sign opposite to the present
\* value at -0.9999.
NoOppositeSign ==
    \A f \in Xnpv(Lo, out.cfs) : \A c \in ListedCandidates :
        \A g \in Xnpv(c, out.cfs) : ~Opposite(f, g)

\* The present value at -0.9999 is not 0 and no listed candidate gives a
\* present value that is 0 or of the opposite sign.
NoRootSeen ==
    \A f \in Xnpv(Lo, out.cfs) : \A c \in ListedCandidates :
        \A g \in Xnpv(c, out.cfs) : ~IsZeroPV(f) /\ ~IsZeroPV(g) /\ ~Opposite(f, g)

IsBisect == phase = "xirr_bisect"
Halfway == RDiv(RAdd(out.lo, out.hi), R(2, 1))

\* The bracket is still followed exactly.
Exact == out.iter < Resolution

\* C18: once a root is bracketed xirr returns: it performs at most max_iter
\* (200 by default) bisection iterations; an iteration returns the midpoint of
\* the bracket when the present value there is within 1e-10 of zero and
\* otherwise keeps one half of the bracket; after max_iter iterations xirr
\* returns the midpoint of the final bracket; every returned rate lies between
\* -0.9999 and the bracketing candidate.
C18_BisectionTerminates ==
    /\ IsBisect ~> XirrReturned
    /\ [](out.iter <= inp.max_iter)
    /\ []((XirrReturned /\ out.result # NoRate) =>
            /\ RateLe(Lo, out.result.low) /\ RateLe(out.result.low, out.result.high)
            /\ RateLe(out.result.high, HiCandidates[out.idx]))
    /\ [][IsBisect =>
            IF out.iter = inp.max_iter
            THEN /\ XirrReturned' /\ out'.iter = out.iter
                 /\ IF Exact THEN out'.result = Rate(Halfway, Halfway)
                    ELSE out'.result = Rate(out.lo, out.hi)
            ELSE /\ out'.iter = out.iter + 1
                 /\ XirrReturned' <=> IsTinyPV(out'.f_mid)
                 /\ (XirrReturned' /\ Exact) => out'.result = Rate(Halfway, Halfway)
                 /\ (XirrReturned' /\ ~Exact) => out'.result = Rate(out.lo, out.hi)
                 /\ (~XirrReturned' /\ Exact) =>
                        \/ out'.lo = Halfway /\ out'.hi = out.hi
                        \/ out'.lo = out.lo /\ out'.hi = Halfway
                 /\ (~XirrReturned' /\ ~Exact) => (out'.lo = out.lo /\ out'.hi = out.hi)]_vars

\* The default 200 iterations are used up and xirr returns a rate inside the
\* bracket [-0.9999, 0.25] found for the reference cashflows.
C18_Witness ==
    /\ XirrReturned /\ inp.max_iter = DefaultMaxIter /\ out.iter = DefaultMaxIter
    /\ HiCandidates[out.idx] = R(1, 4) /\ out.result # NoRate
    /\ RateLt(Lo, out.result.low) /\ RateLt(out.result.high, R(1, 4))


\* ------------------------------------------------------------ C19

\* xirr was called, with the default max_iter, on the reference cashflows
\* [(D0, -1000), (D0 + 365.25 days, +1100)].
ReferenceCall == inp.cashflows = CF_Reference /\ inp.max_iter = DefaultMaxIter

\* The returned rate is a number within tol of 0.10.
WithinOfTenPercent(tol) ==
    /\ out.result # NoRate
    /\ RateLe(RSub(R(1, 10), tol), out.result.low)
    /\ RateLe(out.result.high, RAdd(R(1, 10), tol))

\* C19 as stated: for the reference cashflows xirr returns a rate within 1e-6
\* of 0.10.
C19_Original == (ReferenceCall /\ XirrReturned) => WithinOfTenPercent(R(1, 1000000))

\* C19: for the reference cashflows [(D0, -1000), (D0 + 365.25 days, +1100)]
\* xirr returns a rate within 1e-4 of 0.10 that is more than 1e-6 above 0.10:
\* the elapsed time is counted in whole days, 365 / 365.25 of a year, so the
\* rate solves 1100 / (1 + r) ^ (365 / 365.25) = 1000.
C19_ReferenceRate ==
    (ReferenceCall /\ XirrReturned) =>
        /\ WithinOfTenPercent(R(1, 10000))
        /\ RateLt(R(100001, 1000000), out.result.low)

\* The reference call has returned from the bisection loop, bracketed by the
\* candidate 0.25, after more iterations than the model follows exactly.
C19_Witness ==
    /\ ReferenceCall /\ XirrReturned /\ out.result # NoRate
    /\ HiCandidates[out.idx] = R(1, 4) /\ out.iter > Resolution


\* ------------------------------------------------- the drawdown detector

\* Points of an equity curve, and the values a point takes.
MaxPoints == 5
Dates == 1..MaxPoints
EquityValues == {R(90, 1), R(95, 1), R(100, 1), R(110, 1), R(115, 1)}

\* s.sort_index(): the dates of the series in ascending order.
RECURSIVE SortIndex(_)
SortIndex(dates) ==
    IF dates = {} THEN <<>>
    ELSE LET first == CHOOSE d \in dates : \A e \in dates : d <= e
         IN  <<first>> \o SortIndex(dates \ {first})

\* The locals of _compute_max_drawdown_period before its scan.
ScanStart(value, ts) ==
    [peak_value |-> value, peak_ts |-> ts, maxdd |-> Zero,
     max_peak_value |-> value, max_peak_ts |-> ts,
     max_trough_value |-> value, max_trough_ts |-> ts]

\* A scan that measures every point against the first peak.
ScanPointFirstPeak(st, ts, v) ==
    IF RGe(v, st.peak_value)
    THEN st
    ELSE LET dd == RSub(RDiv(v, st.peak_value), One)
         IN  IF RLt(dd, st.maxdd)
             THEN [st EXCEPT !.maxdd = dd, !.max_peak_value = st.peak_value,
                             !.max_peak_ts = st.peak_ts, !.max_trough_value = v,
                             !.max_trough_ts = ts]
             ELSE st

\* A scan that moves the tracked peak only when the value exceeds it.
ScanPointStrictPeak(st, ts, v) ==
    IF RGt(v, st.peak_value)
    THEN [st EXCEPT !.peak_value = v, !.peak_ts = ts]
    ELSE LET dd == RSub(RDiv(v, st.peak_value), One)
         IN  IF RLt(dd, st.maxdd)
             THEN [st EXCEPT !.maxdd = dd, !.max_peak_value = st.peak_value,
                             !.max_peak_ts = st.peak_ts, !.max_trough_value = v,
                             !.max_trough_ts = ts]
             ELSE st

\* A scan that keeps the first drawdown it meets.
ScanPointFirstDrawdown(st, ts, v) ==
    IF RGe(v, st.peak_value)
    THEN [st EXCEPT !.peak_value = v, !.peak_ts = ts]
    ELSE LET dd == RSub(RDiv(v, st.peak_value), One)
         IN  IF RLt(dd, st.maxdd) /\ st.maxdd = Zero
             THEN [st EXCEPT !.maxdd = dd, !.max_peak_value = st.peak_value,
                             !.max_peak_ts = st.peak_ts, !.max_trough_value = v,
                             !.max_trough_ts = ts]
             ELSE st

\* One iteration of the scan, on the point (ts, v).
ScanPoint(st, ts, v) ==
    IF RGe(v, st.peak_value)
    THEN [st EXCEPT !.peak_value = v, !.peak_ts = ts]
    ELSE LET dd == RSub(RDiv(v, st.peak_value), One)
         IN  IF RLt(dd, st.maxdd)
             THEN [st EXCEPT !.maxdd = dd, !.max_peak_value = st.peak_value,
                             !.max_peak_ts = st.peak_ts, !.max_trough_value = v,
                             !.max_trough_ts = ts]
             ELSE st

\* The scan of the sorted series from its i-th point on.
RECURSIVE ScanFrom(_, _, _, _)
ScanFrom(st, s, index, i) ==
    IF i > Len(index) THEN st
    ELSE ScanFrom(ScanPoint(st, index[i], s[index[i]]), s, index, i + 1)

\* A recovery search that starts at the peak instead of the trough.
RecoveryTsFromPeak(st, s, index) ==
    IF RLt(st.maxdd, Zero)
    THEN LET after == {i \in 1..Len(index) :
                          /\ index[i] >= st.max_peak_ts
                          /\ RGe(s[index[i]], st.max_peak_value)}
         IN  IF after = {} THEN None
             ELSE index[CHOOSE i \in after : \A j \in after : i <= j]
    ELSE None

\* The first date from the trough on whose value is at least the peak's, None
\* without a drawdown or without such a date.
RecoveryTs(st, s, index) ==
    IF RLt(st.maxdd, Zero)
    THEN LET after == {i \in 1..Len(index) :
                          /\ index[i] >= st.max_trough_ts
                          /\ RGe(s[index[i]], st.max_peak_value)}
         IN  IF after = {} THEN None
             ELSE index[CHOOSE i \in after : \A j \in after : i <= j]
    ELSE None

\* The detector reporting the retained drawdown with its sign, maxdd * 100.
ComputeMaxDrawdownPeriodSigned(values_by_date) ==
    IF DOMAIN values_by_date = {} THEN None
    ELSE LET index == SortIndex(DOMAIN values_by_date)
             st == ScanFrom(ScanStart(values_by_date[index[1]], index[1]),
                            values_by_date, index, 1)
         IN  [maxdd_pct |-> RMul(st.maxdd, R(100, 1)),
              peak_date |-> st.max_peak_ts,
              trough_date |-> st.max_trough_ts,
              recovery_date |-> RecoveryTs(st, values_by_date, index),
              peak_value |-> st.max_peak_value,
              trough_value |-> st.max_trough_value]

\* _compute_max_drawdown_period(values_by_date)
ComputeMaxDrawdownPeriod(values_by_date) ==
    IF DOMAIN values_by_date = {} THEN None
    ELSE LET index == SortIndex(DOMAIN values_by_date)
             st == ScanFrom(ScanStart(values_by_date[index[1]], index[1]),
                            values_by_date, index, 1)
         IN  [maxdd_pct |-> RMul(RNeg(st.maxdd), R(100, 1)),
              peak_date |-> st.max_peak_ts,
              trough_date |-> st.max_trough_ts,
              recovery_date |-> RecoveryTs(st, values_by_date, index),
              peak_value |-> st.max_peak_value,
              trough_value |-> st.max_trough_value]

InitDrawdown ==
    /\ phase = "equity"
    /\ cfg = [BaseCfg EXCEPT !.variant = "FixedDCA"]
    /\ bar = 0
    /\ hist = [f \in Feeds |-> <<>>]
    /\ inp = [values |-> <<>>]
    /\ last_invest_bar = NeverInvested
    /\ cashflow = <<>>
    /\ out = NoCall
    /\ last_eval = NoEval
    /\ analyzer = NewAnalyzer
    /\ twin = NoTwin

\* The equity curve gets the value of one more date.
RecordEquity ==
    /\ phase \in {"equity", "drawdown"}
    /\ \E d \in Dates \ DOMAIN inp.values, v \in EquityValues :
          inp' = [values |-> Put(inp.values, d, v)]
    /\ out' = NoCall
    /\ phase' = "equity"
    /\ UNCHANGED <<cfg, bar, hist, last_invest_bar, cashflow, last_eval,
                   analyzer, twin>>

\* print_stats asks for the drawdown period of the equity curve.
ComputeDrawdown ==
    /\ phase = "equity"
    /\ out' = [info |-> ComputeMaxDrawdownPeriod(inp.values)]
    /\ phase' = "drawdown"
    /\ UNCHANGED <<cfg, bar, hist, inp, last_invest_bar, cashflow, last_eval,
                   analyzer, twin>>

NextDrawdown == RecordEquity \/ ComputeDrawdown

SpecDrawdown == InitDrawdown /\ [][NextDrawdown]_vars

\* ------------------------------------------------------------ C20

\* The drawdown period of the current equity curve has been computed.
DrawdownComputed == phase = "drawdown"

\* The series [100, 110, 90, 95, 115] on the dates D1..D5.
EquityReference ==
    [d \in 1..5 |-> <<R(100, 1), R(110, 1), R(90, 1), R(95, 1), R(115, 1)>>[d]]

\* x, rounded to two decimals, is the number of hundredths h.
RoundsTo(x, h) == RLe(R(2 * h - 1, 200), x) /\ RLe(x, R(2 * h + 1, 200))

\* The episode of the reference series: peak 110 at D2, trough 90 at D3,
\* recovery at D5.
ReferenceEpisode ==
    /\ out.info # None
    /\ out.info.peak_value = R(110, 1) /\ out.info.peak_date = 2
    /\ out.info.trough_value = R(90, 1) /\ out.info.trough_date = 3
    /\ out.info.recovery_date = 5

\* C20 as stated: for the reference series the detector reports the episode
\* with a magnitude of -18.18%.
C20_Original ==
    (DrawdownComputed /\ inp.values = EquityReference) =>
        (ReferenceEpisode /\ RoundsTo(out.info.maxdd_pct, -1818))

\* C20: for the equity series [100, 110, 90, 95, 115] on dates D1..D5 the
\* detector reports peak_value = 110 at D2, trough_value = 90 at D3,
\* recovery_date = D5 and the drawdown 90 / 110 - 1 = -18.18% as the positive
\* magnitude maxdd_pct = 18.18; the magnitude it reports is never negative.
C20_DrawdownReference ==
    /\ (DrawdownComputed /\ inp.values = EquityReference) =>
           /\ ReferenceEpisode
           /\ out.info.maxdd_pct = RMul(RNeg(RSub(RDiv(R(90, 1), R(110, 1)), One)), R(100, 1))
           /\ RoundsTo(out.info.maxdd_pct, 1818)
    /\ (DrawdownComputed /\ inp.values # <<>>) => RGe(out.info.maxdd_pct, Zero)

\* The detector has run on the reference series and found an episode.
C20_Witness ==
    /\ DrawdownComputed /\ inp.values = EquityReference
    /\ out.info # None /\ out.info.peak_date < out.info.trough_date


\* ------------------------------------------------------------ C21

\* The detector has returned a result for a series with at least one point.
EpisodeReported == DrawdownComputed /\ DOMAIN inp.values # {}

\* The highest value of the series on the dates up to d.
RunningPeakAt(d) ==
    LET upto == {inp.values[e] : e \in {x \in DOMAIN inp.values : x <= d}}
    IN  CHOOSE p \in upto : \A q \in upto : RLe(q, p)

\* value / running peak - 1 at the date d.
DrawdownAt(d) == RSub(RDiv(inp.values[d], RunningPeakAt(d)), One)

\* The minimum of the drawdowns over all points of the series.
Deepest ==
    LET all == {DrawdownAt(d) : d \in DOMAIN inp.values}
    IN  CHOOSE x \in all : \A y \in all : RLe(x, y)

\* C21: for every series of positive values the drawdown retained by
\* _compute_max_drawdown_period is the minimum over all points of
\* value / running peak - 1, and the reported trough and peak are a point that
\* attains it and the running peak of that point, with their dates.
C21_DeepestDrawdown ==
    EpisodeReported =>
        /\ out.info.maxdd_pct = RMul(RNeg(Deepest), R(100, 1))
        /\ out.info.trough_date \in DOMAIN inp.values
        /\ inp.values[out.info.trough_date] = out.info.trough_value
        /\ DrawdownAt(out.info.trough_date) = Deepest
        /\ out.info.peak_date \in DOMAIN inp.values
        /\ out.info.peak_date <= out.info.trough_date
        /\ inp.values[out.info.peak_date] = out.info.peak_value
        /\ out.info.peak_value = RunningPeakAt(out.info.trough_date)

\* A series with a shallower drawdown before the deepest one and a new peak
\* between the two.
C21_Witness ==
    /\ EpisodeReported
    /\ \E d \in DOMAIN inp.values :
          /\ d < out.info.peak_date
          /\ RLt(DrawdownAt(d), Zero) /\ RLt(Deepest, DrawdownAt(d))


\* ------------------------------------------------------------ C22

\* x is None (a date and None are of different kinds, compared by their text).
IsNone(x) == ToString(x) = ToString(None)

\* A drawdown was found in the series: some point lies below its running peak.
DrawdownFound == RLt(Deepest, Zero)

\* The dates from the reported trough on whose value is at least the running
\* peak of the trough.
RecoveredOn ==
    {d \in DOMAIN inp.values :
        /\ d >= out.info.trough_date
        /\ RGe(inp.values[d], RunningPeakAt(out.info.trough_date))}

\* C22: when a drawdown was found, recovery_date is the first date from the
\* trough date on whose value is at least the peak value that preceded the
\* drawdown, and it is None exactly when there is no such date; when no
\* drawdown was found, recovery_date is None.
C22_RecoveryDate ==
    EpisodeReported =>
        IF DrawdownFound /\ RecoveredOn # {}
        THEN /\ ~IsNone(out.info.recovery_date)
             /\ out.info.recovery_date \in RecoveredOn
             /\ \A d \in RecoveredOn : out.info.recovery_date <= d
        ELSE IsNone(out.info.recovery_date)

\* A recovery found after scanning past a point that is still below the peak.
C22_Witness ==
    /\ EpisodeReported /\ DrawdownFound /\ ~IsNone(out.info.recovery_date)
    /\ \E d \in DOMAIN inp.values :
          /\ out.info.trough_date < d /\ d < out.info.recovery_date
          /\ RLt(inp.values[d], out.info.peak_value)

\* A drawdown that the series never recovers from.
C22_NeverRecovered ==
    EpisodeReported /\ DrawdownFound /\ IsNone(out.info.recovery_date)


\* ------------------------------------------------------------ C23

\* The orders of a call as the broker sees them: asset and quantity, in the
\* order of emission.
Emitted(o) == [i \in 1..Len(o.orders) |-> <<o.orders[i].name, o.orders[i].size>>]

MarkerMutated == phase # "new" /\ last_invest_bar' # last_invest_bar

\* C24 as stated: the marker is mutated only on a bar on which at least one
\* order was emitted.
C24_Original == [][MarkerMutated => (IsCall /\ out'.orders # <<>>)]_vars

\* C24: the schedule starts as never invested, and the marker is mutated only
\* by a call of next() that passes the schedule gate, which sets it to the
\* current bar whether it emitted an order or skipped the investment.
C24_MarkerFrame ==
    /\ [](phase = "ready" /\ bar = 0 => last_invest_bar = NeverInvested)
    /\ [][/\ MarkerMutated => (IsCall /\ out'.evaluated)
          /\ (IsCall /\ out'.evaluated) => last_invest_bar' = bar]_vars

\* A call has moved the marker to a later bar without emitting an order.
C24_Witness ==
    /\ Called /\ out.evaluated /\ out.orders = <<>>
    /\ bar >= 2 /\ last_invest_bar = bar /\ last_eval.bar = bar


\* ------------------------------------------------------------ C25

\* The signals of a feed are undefined on the current bar: its slow average
\* or the rolling standard deviation read for it is NaN.
WarmingUp(name) ==
    IsNaN(SMA(hist[name], cfg.slow_period, 0, bar)) \/ IsNaN(inp.sd[name])

\* The assets a tilting variant has evaluated on the current bar while their
\* signals were undefined.
WarmUpAssets ==
    IF Called /\ out.evaluated /\ cfg.variant \in TiltVariants
    THEN {i \in 1..Len(out.assets) :
             ~out.assets[i].skipped /\ WarmingUp(out.assets[i].name)}
    ELSE {}

PeakDates ==
    {d \in DOMAIN inp.values :
        /\ d <= out.info.trough_date
        /\ inp.values[d] = RunningPeakAt(out.info.trough_date)}

\* C26 as stated: the reported peak_date is the date on which the peak value
\* preceding the drawdown was first reached.
C26_Original ==
    EpisodeReported =>
        (out.info.peak_date \in PeakDates /\ \A d \in PeakDates : out.info.peak_date <= d)

\* C26: the tracked peak is moved by every point whose value is at least the
\* running peak, so the reported peak_date is the last date up to the trough
\* on which the series has the peak value preceding the drawdown.
C26_PeakTracking ==
    EpisodeReported =>
        (out.info.peak_date \in PeakDates /\ \A d \in PeakDates : d <= out.info.peak_date)

\* A drawdown whose peak value was already seen on an earlier date.
C26_Witness ==
    /\ EpisodeReported /\ DrawdownFound
    /\ \E d \in PeakDates : d < out.info.peak_date


\* ------------------------------------------------------------ C27

\* No asset gets two orders on one bar.
OnePerAsset(o) ==
    \A i, j \in 1..Len(o.orders) : o.orders[i].name = o.orders[j].name => i = j

\* C27: on every evaluated bar the order values (size * price) sum to at most
\* max_deployable = cash / reserve_multiplier, with the cash read on that bar;
\* every order has a strictly positive size and no asset gets two orders.
C27_NoOverspend ==
    (Called /\ out.evaluated) =>
        /\ out.cash = inp.cash
        /\ out.max_deployable = RDiv(out.cash, cfg.reserve_multiplier)
        /\ RLe(OrderValue(out), out.max_deployable)
        /\ \A i \in 1..Len(out.orders) : RGt(out.orders[i].size, Zero)
        /\ OnePerAsset(out)


\* ------------------------------------------------------------ C28

\* The bar presented to next() is rejected by the schedule gate: an investment
\* event has happened and fewer than interval bars have passed since.
RejectedBySchedule ==
    last_invest_bar >= 0 /\ bar - last_invest_bar < cfg.interval

\* C28: a call of next() on a bar rejected by the schedule gate emits no order,
\* makes no deposit and records no cashflow, and leaves last_invest_bar and the
\* cashflow ledger as they were.
C28_GatedBarFrame ==
    [][(IsCall /\ RejectedBySchedule) =>
          /\ ~out'.evaluated
          /\ out'.orders = <<>>
          /\ out'.deposit = Zero
          /\ cashflow' = cashflow
          /\ last_invest_bar' = last_invest_bar]_vars

\* A FixedDCA run with a deposit of 20 per evaluated bar has just had a bar
\* rejected: the ledger holds the deposit of the evaluated bar only.
C28_Witness ==
    /\ Called /\ ~out.evaluated
    /\ cfg.variant = "FixedDCA" /\ RGt(cfg.deposit_amount, Zero)
    /\ last_invest_bar >= 0 /\ last_invest_bar < bar
    /\ DOMAIN cashflow = {DateOf(last_invest_bar)}


\* ------------------------------------------- a FixedDCA run with its analyzer

\* Number of bars of a run with the analyzer attached.
MaxLedgerBar == 4

\* FixedDCA with one asset: a deposit of 50 per evaluated bar on an interval
\* of 1 or 2 bars, a broker that takes no deposits, and no deposit at all.
LedgerCfgs ==
    LET base == [BaseCfg EXCEPT !.variant = "FixedDCA", !.portfolio = P_Single,
                                !.interval = 1, !.deposit_amount = <<50, 1>>]
    IN  {base, [base EXCEPT !.interval = 2], [base EXCEPT !.broker_deposits = FALSE],
         [base EXCEPT !.deposit_amount = Zero]}

\* broker.get_cash() on an evaluated bar.
LedgerCash == {Zero, <<111, 1>>}

\* The constructed strategy with a fresh analyzer; every feed closes at 10.
InitLedger ==
    /\ phase = "bar"
    /\ cfg \in LedgerCfgs
    /\ bar = 0
    /\ hist = [f \in Feeds |-> << <<10, 1>> >>]
    /\ inp = [date |-> 0, dep |-> Zero, value |-> Zero, prev_dep |-> Zero]
    /\ last_invest_bar = NeverInvested
    /\ cashflow = <<>>
    /\ out = NoCall
    /\ last_eval = NoEval
    /\ analyzer = NewAnalyzer
    /\ twin = NoTwin

\* The engine presents a bar, dated the day of the previous bar or the day
\* after, and FixedDCA.next runs: the gate, the deposit recorded under the
\* bar's date, the investment.  inp keeps the deposit of this bar and of the
\* bar before.
LedgerBar ==
    /\ phase = "bar"
    /\ bar < MaxLedgerBar
    /\ bar' = bar + 1
    /\ \E dt \in IF bar = 0 THEN {1} ELSE {inp.date, inp.date + 1},
          cash \in IF Gated(cfg, last_invest_bar, bar + 1) THEN {NoInput.cash}
                   ELSE LedgerCash :
          /\ out' = NextCall(cfg, last_invest_bar, hist, NoInput.sd, cash, bar + 1)
          /\ inp' = [date |-> dt, dep |-> out'.deposit, value |-> inp.value,
                     prev_dep |-> inp.dep]
          /\ cashflow' = Record(cashflow, dt, out'.deposit)
    /\ last_invest_bar' = out'.last
    /\ last_eval' = IF out'.evaluated
                    THEN [bar |-> bar + 1, skipped |-> out'.kind # "invested"]
                    ELSE last_eval
    /\ phase' = "strategy"
    /\ UNCHANGED <<cfg, hist, analyzer, twin>>

NextLedger == LedgerBar \/ AnalyzerBar

SpecLedger == InitLedger /\ [][NextLedger]_vars

\* ------------------------------------------------------------ C29

\* A step that is a call of FixedDCA.next in a run with the analyzer.
IsLedgerCall == phase = "bar" /\ phase' = "strategy"

\* The deposit of an evaluated bar: deposit_amount when it is positive and the
\* broker accepts it, whatever becomes of the investment; a rejected bar
\* deposits nothing; the deposit is added to the ledger entry of the bar's date.
DepositsRecorded ==
    [][IsLedgerCall =>
          /\ out'.deposit = IF /\ out'.evaluated /\ RGt(cfg.deposit_amount, Zero)
                               /\ cfg.broker_deposits
                            THEN cfg.deposit_amount ELSE Zero
          /\ \A d \in DOMAIN cashflow \cup {inp'.date} :
                RGt(out'.deposit, Zero) \/ d \in DOMAIN cashflow =>
                    /\ d \in DOMAIN cashflow'
                    /\ cashflow'[d] = IF d = inp'.date
                                      THEN RAdd(FlowOn(d), out'.deposit)
                                      ELSE cashflow[d]]_vars

\* Recorded ledger amounts never decrease and are never removed.
LedgerGrows ==
    [][\A d \in DOMAIN cashflow :
          d \in DOMAIN cashflow' /\ RLe(cashflow[d], cashflow'[d])]_vars

FirstDate == CHOOSE d \in DOMAIN inp.values : \A e \in DOMAIN inp.values : d <= e

\* The series never falls below its running peak.
NeverBelowPeak ==
    \A d \in DOMAIN inp.values : RGe(inp.values[d], RunningPeakAt(d))

C30_EmptySeries == DrawdownComputed /\ DOMAIN inp.values = {} /\ IsNone(out.info)

\* A recovered drawdown: peak, trough and recovery dates in strict order.
C30_Recovered ==
    /\ EpisodeReported /\ ~IsNone(out.info.recovery_date)
    /\ out.info.peak_date < out.info.trough_date
    /\ RGt(out.info.maxdd_pct, Zero)

=============================================================================
